---- MODULE Spec2Model ----
(***************************************************************************)
(* Correction detection and preference aggregation of claude-reinforcement *)
(* (src/analysis/corrections.py, src/analysis/preferences.py and the       *)
(* detect / extract-preferences steps of src/analysis/pipeline.py).        *)
(*                                                                         *)
(* Message texts are strings; a text position i means "i characters        *)
(* consumed", so the next character is Ch(s, i + 1).  Confidences are      *)
(* kept in hundredths (0.65 is 65).  Timestamps are naturals, 0 standing    *)
(* for the empty timestamp.                                                *)
(***************************************************************************)
EXTENDS Integers, Sequences, FiniteSets, TLC

(***************************************************************************)
(* Characters and strings (Python str operations used by the code).        *)
(***************************************************************************)
Ch(s, i) == SubSeq(s, i, i)

CharsOf(s) == {Ch(s, i) : i \in 1..Len(s)}

Uppers == "ABCDEFGHIJKLMNOPQRSTUVWXYZ"

Lowers == "abcdefghijklmnopqrstuvwxyz"

Digit == CharsOf("0123456789")

Word == CharsOf(Uppers) \cup CharsOf(Lowers) \cup Digit \cup {"_"}

Space == {" ", "\t", "\n", "\r", "\f"}

SetMin(S) == CHOOSE x \in S : \A y \in S : x <= y

SetMax(S) == CHOOSE x \in S : \A y \in S : x >= y

LowerOf == [c \in CharsOf(Uppers) |-> Ch(Lowers, CHOOSE i \in 1..Len(Uppers) : Ch(Uppers, i) = c)]

UpperOf == [c \in CharsOf(Lowers) |-> Ch(Uppers, CHOOSE i \in 1..Len(Lowers) : Ch(Lowers, i) = c)]

LowerCh(c) == IF c \in DOMAIN LowerOf THEN LowerOf[c] ELSE c

UpperCh(c) == IF c \in DOMAIN UpperOf THEN UpperOf[c] ELSE c

\* str.lower(), by halving so that long texts do not nest deeply
RECURSIVE Lower(_)
Lower(s) ==
    IF Len(s) = 0 THEN ""
    ELSE IF Len(s) = 1 THEN LowerCh(s)
    ELSE LET h == Len(s) \div 2
         IN  Lower(SubSeq(s, 1, h)) \o Lower(SubSeq(s, h + 1, Len(s)))

\* str.strip()
Strip(s) ==
    LET idx == {i \in 1..Len(s) : Ch(s, i) \notin Space}
    IN  IF idx = {} THEN "" ELSE SubSeq(s, SetMin(idx), SetMax(idx))

\* str.startswith(p)
StartsWith(s, p) == Len(s) >= Len(p) /\ SubSeq(s, 1, Len(p)) = p

\* str.endswith(p)
EndsWith(s, p) == Len(s) >= Len(p) /\ SubSeq(s, Len(s) - Len(p) + 1, Len(s)) = p

\* s[:n]
Prefix(s, n) == IF Len(s) <= n THEN s ELSE SubSeq(s, 1, n)

\* s[n:]
Suffix(s, n) == IF Len(s) <= n THEN "" ELSE SubSeq(s, n + 1, Len(s))

\* s * n
RECURSIVE Times(_, _)
Times(s, n) ==
    IF n = 0 THEN ""
    ELSE IF n % 2 = 0 THEN LET h == Times(s, n \div 2) IN h \o h
    ELSE s \o Times(s, n - 1)

(***************************************************************************)
(* Regular expressions: the syntax tree of a pattern of the re module, and *)
(* re.search as the backtracking matcher computes it (leftmost start, then *)
(* the first alternative / greedy repetition that lets the rest match).    *)
(***************************************************************************)
Lit(s) == <<"lit", s>>                 \* literal text

Cls(S) == <<"cls", S>>                 \* [...]

NCls(S) == <<"ncls", S>>               \* [^...]

Dot == <<"dot">>                       \* .

Cat(rs) == <<"seq", rs>>               \* r1 r2 ...

Alt(rs) == <<"alt", rs>>               \* r1|r2|...

Opt(r) == <<"opt", r>>                 \* r?

Inf == -1

Rep(a, lo, hi) == <<"rep", a, lo, hi, TRUE>>     \* a{lo,hi}, a one-character atom

Lazy(a, lo, hi) == <<"rep", a, lo, hi, FALSE>>   \* a{lo,hi}?

Star(a) == Rep(a, 0, Inf)

Plus(a) == Rep(a, 1, Inf)

Grp(k, r) == <<"grp", k, r>>           \* capturing group number k

Bol == <<"bol">>                       \* ^

Eol == <<"eol">>                       \* $

Wb == <<"wb">>                         \* \b

W == Cls(Word)                         \* \w

D == Cls(Digit)                        \* \d

Sp == Cls(Space)                       \* \s

NonAscii == Cls({})                    \* a character outside ASCII: no text of the model holds one

\* alternation of literal words
Words(ws) == Alt([i \in 1..Len(ws) |-> Lit(ws[i])])

\* a compiled pattern: tree, number of capturing groups, re.IGNORECASE
Re(r, ng, ic) == [re |-> r, ng |-> ng, ic |-> ic]

Fail == <<>>

AtomMatches(a, c, ic) ==
    IF a[1] = "dot" THEN c # "\n"
    ELSE (a[1] = "cls") = (IF ic THEN {c, LowerCh(c), UpperCh(c)} \cap a[2] # {} ELSE c \in a[2])

\* under re.IGNORECASE the matcher runs on the lower-cased text (Lower keeps every position)
LitAt(s, i, h, ic) ==
    /\ i + Len(h[2]) <= Len(s)
    /\ SubSeq(s, i + 1, i + Len(h[2])) = (IF ic THEN Lower(h[2]) ELSE h[2])

\* the length of the run that stops before the first of the positions bad, or at lim
RunEnd(bad, lim) ==
    IF bad = {} THEN lim ELSE (CHOOSE j \in bad : \A j2 \in 1..(j - 1) : j2 \notin bad) - 1

\* at most lim characters are left after position i for a{lo,hi}
RunLimit(s, i, hi) == IF hi < 0 \/ hi > Len(s) - i THEN Len(s) - i ELSE hi

\* the longest run of characters matching atom a from position i (at most lim)
RunLen(s, i, a, ic, lim) == RunEnd({j \in 1..lim : ~AtomMatches(a, Ch(s, i + j), ic)}, lim)

IsWordAt(s, i) == i >= 1 /\ i <= Len(s) /\ Ch(s, i) \in Word

\* the repetitions to take among ok: the most (greedy) or the fewest (lazy)
RepChoice(ok, lo, run, greedy) ==
    IF greedy THEN CHOOSE e \in ok : \A e2 \in (e + 1)..run : e2 \notin ok
    ELSE CHOOSE e \in ok : \A e2 \in lo..(e - 1) : e2 \notin ok

RECURSIVE M(_, _, _, _, _, _)

\* a{lo,hi} then the rest t, given the repetitions ok after which the rest matches
RepTake(t, s, i, caps, ic, ml, h, run, ok) ==
    IF ok = {} THEN Fail ELSE M(t, s, i + RepChoice(ok, h[3], run, h[5]), caps, ic, ml)

\* a{lo,hi} then the rest t, given the longest run of a from position i
RepStep(t, s, i, caps, ic, ml, h, run) ==
    RepTake(t, s, i, caps, ic, ml, h, run,
            {e \in h[3]..run : Len(M(t, s, i + e, caps, ic, ml)) > 0})

\* st: the pattern nodes still to match, in order; result <<end, caps>> or Fail
M(st, s, i, caps, ic, ml) ==
    IF Len(st) = 0 THEN <<i, caps>>
    ELSE
    LET h == Head(st)
        t == Tail(st)
        k == h[1]
    IN  CASE k = "lit" ->
                IF LitAt(s, i, h, ic) THEN M(t, s, i + Len(h[2]), caps, ic, ml) ELSE Fail
          [] k \in {"cls", "ncls", "dot"} ->
                IF i < Len(s) /\ AtomMatches(h, Ch(s, i + 1), ic)
                THEN M(t, s, i + 1, caps, ic, ml) ELSE Fail
          [] k = "seq" -> M(h[2] \o t, s, i, caps, ic, ml)
          [] k = "alt" ->
                LET ok == {j \in 1..Len(h[2]) : Len(M(<<h[2][j]>> \o t, s, i, caps, ic, ml)) > 0}
                IN  IF ok = {} THEN Fail
                    ELSE M(<<h[2][SetMin(ok)]>> \o t, s, i, caps, ic, ml)
          [] k = "opt" ->
                LET r == M(<<h[2]>> \o t, s, i, caps, ic, ml)
                IN  IF Len(r) > 0 THEN r ELSE M(t, s, i, caps, ic, ml)
          [] k = "rep" ->
                RepStep(t, s, i, caps, ic, ml, h, RunLen(s, i, h[2], ic, RunLimit(s, i, h[4])))
          [] k = "grp" -> M(<<h[3], <<"end", h[2], i>>>> \o t, s, i, caps, ic, ml)
          [] k = "end" -> M(t, s, i, [caps EXCEPT ![h[2]] = <<h[3], i>>], ic, ml)
          [] k = "bol" ->
                IF i = 0 \/ (ml /\ Ch(s, i) = "\n") THEN M(t, s, i, caps, ic, ml) ELSE Fail
          [] k = "eol" ->
                IF \/ i = Len(s)
                   \/ (i = Len(s) - 1 /\ Ch(s, Len(s)) = "\n")
                   \/ (ml /\ i < Len(s) /\ Ch(s, i + 1) = "\n")
                THEN M(t, s, i, caps, ic, ml) ELSE Fail
          [] k = "wb" ->
                IF IsWordAt(s, i) # IsWordAt(s, i + 1) THEN M(t, s, i, caps, ic, ml) ELSE Fail
          [] k = "eos" ->
                IF i = Len(s) THEN M(t, s, i, caps, ic, ml) ELSE Fail
          [] k = "ahead" ->
                IF Len(M(<<h[2]>>, s, i, caps, ic, ml)) > 0 THEN M(t, s, i, caps, ic, ml) ELSE Fail

\* re.search(p, s, flags): <<start, end, caps>> of the leftmost match, or Fail
Leftmost(res, n) ==
    IF \A i \in 0..n : Len(res[i]) = 0 THEN Fail
    ELSE LET i0 == CHOOSE i \in 0..n : Len(res[i]) > 0 /\ \A j \in 0..(i - 1) : Len(res[j]) = 0
         IN  <<i0, res[i0][1], res[i0][2]>>

\* the search in the text t, already lower-cased for re.IGNORECASE
SearchIn(p, t, ml) ==
    Leftmost([i \in 0..Len(t) |-> M(<<p.re>>, t, i, [g \in 1..p.ng |-> <<>>], p.ic, ml)], Len(t))

SearchFrom(p, s, ml) == SearchIn(p, IF p.ic THEN Lower(s) ELSE s, ml)

Search(p, s) == SearchFrom(p, s, FALSE)

Matches(p, s) == Len(Search(p, s)) > 0

MatchesML(p, s) == Len(SearchFrom(p, s, TRUE)) > 0

\* match.group(0)
Group0(s, m) == SubSeq(s, m[1] + 1, m[2])

\* match.groups(): the text of each group, None (here <<>>) for a group that took no part
Groups(s, m) ==
    [g \in 1..Len(m[3]) |->
        IF Len(m[3][g]) = 0 THEN <<>> ELSE <<SubSeq(s, m[3][g][1] + 1, m[3][g][2])>>]

(***************************************************************************)
(* corrections.py: the pattern tables.  Each pattern is written as its     *)
(* syntax tree, the source regex in the comment before it.                 *)
(***************************************************************************)
S1 == Plus(Sp)                         \* \s+

S0 == Star(Sp)                         \* \s*

Apos == Opt(Lit("'"))                  \* '?

DotPlus == Plus(Dot)                   \* .+

WPlus == Plus(W)                       \* \w+

\* (?:w\s+)?
OptWord(w) == Opt(Cat(<<Lit(w), S1>>))

\* don'?t
Dont == Cat(<<Lit("don"), Apos, Lit("t")>>)

\* [,.]?
OptPunct == Opt(Cls({",", "."}))

\* files?,?\s+
FilesSep == Cat(<<Lit("file"), Opt(Lit("s")), Opt(Lit(",")), S1>>)

\* (\.\w+) as group k
DotExt(k) == Grp(k, Cat(<<Lit("."), WPlus>>))

Pat(r, ng, type, conf) == [p |-> Re(r, ng, TRUE), type |-> type, conf |-> conf]

PREFERENCE_PATTERNS == <<
    \* (?i)^no[,.]?\s+(.+)
    Pat(Cat(<<Bol, Lit("no"), OptPunct, S1, Grp(1, DotPlus)>>), 1, "correction", 90),
    \* (?i)^wrong[,.]?\s+(.+)
    Pat(Cat(<<Bol, Lit("wrong"), OptPunct, S1, Grp(1, DotPlus)>>), 1, "correction", 90),
    \* (?i)^incorrect[,.]?\s+(.+)
    Pat(Cat(<<Bol, Lit("incorrect"), OptPunct, S1, Grp(1, DotPlus)>>), 1, "correction", 85),
    \* (?i)^that'?s?\s+not\s+(right|correct|what)
    Pat(Cat(<<Bol, Lit("that"), Apos, Opt(Lit("s")), S1, Lit("not"), S1,
              Grp(1, Words(<<"right", "correct", "what">>))>>), 1, "correction", 85),
    \* (?i)don'?t\s+(.+)
    Pat(Cat(<<Dont, S1, Grp(1, DotPlus)>>), 1, "correction", 80),
    \* (?i)never\s+(.+)
    Pat(Cat(<<Lit("never"), S1, Grp(1, DotPlus)>>), 1, "correction", 85),
    \* (?i)^why\s+(didn'?t|don'?t)\s+you
    Pat(Cat(<<Bol, Lit("why"), S1,
              Grp(1, Alt(<<Cat(<<Lit("didn"), Apos, Lit("t")>>), Dont>>)), S1, Lit("you")>>),
        1, "correction", 70),
    \* (?i)(?:you\s+should\s+)?use\s+(\w+)(?:\s+for\s+|\s+when\s+|\s+instead)
    Pat(Cat(<<Opt(Cat(<<Lit("you"), S1, Lit("should"), S1>>)), Lit("use"), S1, Grp(1, WPlus),
              Alt(<<Cat(<<S1, Lit("for"), S1>>), Cat(<<S1, Lit("when"), S1>>),
                    Cat(<<S1, Lit("instead")>>)>>)>>), 1, "tool", 85),
    \* (?i)(?:please\s+)?use\s+(\w+)\s+(?:not|instead\s+of)\s+(\w+)
    Pat(Cat(<<OptWord("please"), Lit("use"), S1, Grp(1, WPlus), S1,
              Alt(<<Lit("not"), Cat(<<Lit("instead"), S1, Lit("of")>>)>>), S1, Grp(2, WPlus)>>),
        2, "tool", 90),
    \* (?i)for\s+python\s+(?:projects?\s+)?(?:you\s+should\s+)?(?:always\s+)?use\s+(\w+)
    Pat(Cat(<<Lit("for"), S1, Lit("python"), S1,
              Opt(Cat(<<Lit("project"), Opt(Lit("s")), S1>>)),
              Opt(Cat(<<Lit("you"), S1, Lit("should"), S1>>)),
              OptWord("always"), Lit("use"), S1, Grp(1, WPlus)>>), 1, "tool", 90),
    \* (?i)(?:always\s+)?use\s+(uv|pip|poetry|conda|npm|yarn|pnpm|bun)
    Pat(Cat(<<OptWord("always"), Lit("use"), S1,
              Grp(1, Words(<<"uv", "pip", "poetry", "conda", "npm", "yarn", "pnpm", "bun">>))>>),
        1, "tool", 85),
    \* (?i)always\s+(.+)
    Pat(Cat(<<Lit("always"), S1, Grp(1, DotPlus)>>), 1, "workflow", 85),
    \* (?i)make\s+sure\s+(?:to\s+|you\s+)?(.+)
    Pat(Cat(<<Lit("make"), S1, Lit("sure"), S1,
              Opt(Alt(<<Cat(<<Lit("to"), S1>>), Cat(<<Lit("you"), S1>>)>>)), Grp(1, DotPlus)>>),
        1, "workflow", 80),
    \* (?i)remember\s+to\s+(.+)
    Pat(Cat(<<Lit("remember"), S1, Lit("to"), S1, Grp(1, DotPlus)>>), 1, "workflow", 80),
    \* (?i)you\s+should\s+(?:always\s+)?(.+)
    Pat(Cat(<<Lit("you"), S1, Lit("should"), S1, OptWord("always"), Grp(1, DotPlus)>>),
        1, "workflow", 75),
    \* (?i)please\s+(?:always\s+)?(.+?)(?:\s+when|\s+for|\s+before|\s+after|$)
    Pat(Cat(<<Lit("please"), S1, OptWord("always"), Grp(1, Lazy(Dot, 1, Inf)),
              Alt(<<Cat(<<S1, Lit("when")>>), Cat(<<S1, Lit("for")>>), Cat(<<S1, Lit("before")>>),
                    Cat(<<S1, Lit("after")>>), Eol>>)>>), 1, "workflow", 70),
    \* (?i)(?:please\s+)?(?:also\s+)?update\s+(?:the\s+)?(readme|changelog|history|documentation|docs)
    Pat(Cat(<<OptWord("please"), OptWord("also"), Lit("update"), S1, OptWord("the"),
              Grp(1, Words(<<"readme", "changelog", "history", "documentation", "docs">>))>>),
        1, "documentation", 85),
    \* (?i)(?:please\s+)?(?:also\s+)?add\s+(?:this\s+)?(?:to\s+)?(?:the\s+)?(readme|changelog|history|documentation|docs)
    Pat(Cat(<<OptWord("please"), OptWord("also"), Lit("add"), S1, OptWord("this"), OptWord("to"),
              OptWord("the"),
              Grp(1, Words(<<"readme", "changelog", "history", "documentation", "docs">>))>>),
        1, "documentation", 85),
    \* (?i)(?:please\s+)?document\s+(?:this|the|your)
    Pat(Cat(<<OptWord("please"), Lit("document"), S1, Words(<<"this", "the", "your">>)>>),
        0, "documentation", 80),
    \* (?i)(?:please\s+)?(?:also\s+)?write\s+(?:a\s+)?(?:the\s+)?(readme|documentation|docs)
    Pat(Cat(<<OptWord("please"), OptWord("also"), Lit("write"), S1, OptWord("a"), OptWord("the"),
              Grp(1, Words(<<"readme", "documentation", "docs">>))>>), 1, "documentation", 80),
    \* (?i)keep\s+(?:the\s+)?(readme|changelog|documentation|docs)\s+(?:up\s+to\s+date|updated)
    Pat(Cat(<<Lit("keep"), S1, OptWord("the"),
              Grp(1, Words(<<"readme", "changelog", "documentation", "docs">>)), S1,
              Alt(<<Cat(<<Lit("up"), S1, Lit("to"), S1, Lit("date")>>), Lit("updated")>>)>>),
        1, "documentation", 85),
    \* (?i)i\s+prefer\s+(.+)
    Pat(Cat(<<Lit("i"), S1, Lit("prefer"), S1, Grp(1, DotPlus)>>), 1, "preference", 75),
    \* (?i)use\s+(.+)\s+instead(\s+of\s+.+)?
    Pat(Cat(<<Lit("use"), S1, Grp(1, DotPlus), S1, Lit("instead"),
              Opt(Grp(2, Cat(<<S1, Lit("of"), S1, DotPlus>>)))>>), 2, "preference", 80),
    \* (?i)instead\s+of\s+(.+),?\s+(use|do)\s+(.+)
    Pat(Cat(<<Lit("instead"), S1, Lit("of"), S1, Grp(1, DotPlus), Opt(Lit(",")), S1,
              Grp(2, Words(<<"use", "do">>)), S1, Grp(3, DotPlus)>>), 3, "preference", 80),
    \* (?i)make\s+it\s+(more|less)\s+(.+)
    Pat(Cat(<<Lit("make"), S1, Lit("it"), S1, Grp(1, Words(<<"more", "less">>)), S1,
              Grp(2, DotPlus)>>), 2, "refinement", 60),
    \* (?i)too\s+(verbose|complex|long|short|simple)
    Pat(Cat(<<Lit("too"), S1,
              Grp(1, Words(<<"verbose", "complex", "long", "short", "simple">>))>>),
        1, "refinement", 65),
    \* (?i)(?:be\s+)?more\s+concise
    Pat(Cat(<<OptWord("be"), Lit("more"), S1, Lit("concise")>>), 0, "refinement", 65),
    \* (?i)^did\s+you\s+(try|check|run|test|render|update)
    Pat(Cat(<<Bol, Lit("did"), S1, Lit("you"), S1,
              Grp(1, Words(<<"try", "check", "run", "test", "render", "update">>))>>),
        1, "reminder", 60),
    \* (?i)^can\s+you\s+(?:also|actually|please)
    Pat(Cat(<<Bol, Lit("can"), S1, Lit("you"), S1, Words(<<"also", "actually", "please">>)>>),
        0, "reminder", 50),
    \* (?i)when\s+working\s+(?:with|on)\s+(\.\w+)\s+files?,?\s+(.+)
    Pat(Cat(<<Lit("when"), S1, Lit("working"), S1, Words(<<"with", "on">>), S1, DotExt(1), S1,
              FilesSep, Grp(2, DotPlus)>>), 2, "file_specific", 80),
    \* (?i)for\s+(\.\w+)\s+files?,?\s+(.+)
    Pat(Cat(<<Lit("for"), S1, DotExt(1), S1, FilesSep, Grp(2, DotPlus)>>), 2, "file_specific", 75),
    \* (?i)in\s+(\.\w+)\s+files?,?\s+(?:always\s+)?(.+)
    Pat(Cat(<<Lit("in"), S1, DotExt(1), S1, FilesSep, OptWord("always"), Grp(2, DotPlus)>>),
        2, "file_specific", 75)
>>

\* Legacy alias
CORRECTION_PATTERNS == PREFERENCE_PATTERNS

POSITIVE_PATTERNS == <<
    \* (?i)^(perfect|great|thanks|thank\s+you|good|nice|excellent|awesome)
    Re(Cat(<<Bol, Grp(1, Alt(<<Lit("perfect"), Lit("great"), Lit("thanks"),
                               Cat(<<Lit("thank"), S1, Lit("you")>>), Lit("good"), Lit("nice"),
                               Lit("excellent"), Lit("awesome")>>))>>), 1, TRUE),
    \* (?i)^that'?s?\s+(right|correct|good|perfect|great)
    Re(Cat(<<Bol, Lit("that"), Apos, Opt(Lit("s")), S1,
             Grp(1, Words(<<"right", "correct", "good", "perfect", "great">>))>>), 1, TRUE),
    \* (?i)^(yes|yeah|yep|yup)[,.]?\s*(that'?s?|looks?)?
    Re(Cat(<<Bol, Grp(1, Words(<<"yes", "yeah", "yep", "yup">>)), OptPunct, S0,
             Opt(Grp(2, Alt(<<Cat(<<Lit("that"), Apos, Opt(Lit("s"))>>),
                              Cat(<<Lit("look"), Opt(Lit("s"))>>)>>)))>>), 2, TRUE),
    \* (?i)^exactly
    Re(Cat(<<Bol, Lit("exactly")>>), 0, TRUE),
    \* (?i)^(lgtm|looks\s+good)
    Re(Cat(<<Bol, Grp(1, Alt(<<Lit("lgtm"), Cat(<<Lit("looks"), S1, Lit("good")>>)>>))>>), 1, TRUE)
>>

\* a case-sensitive pattern without groups
Cs(r) == Re(r, 0, FALSE)

\* a case-insensitive pattern without groups
Ci(r) == Re(r, 0, TRUE)

\* searched with re.MULTILINE
NOISE_INDICATORS == <<
    \* ^\d{4}-\d{2}-\d{2}
    Cs(Cat(<<Bol, Rep(D, 4, 4), Lit("-"), Rep(D, 2, 2), Lit("-"), Rep(D, 2, 2)>>)),
    \* ^[A-Z][a-z]+\s+\d{1,2},\s+\d{4}
    Cs(Cat(<<Bol, Cls(CharsOf(Uppers)), Plus(Cls(CharsOf(Lowers))), S1, Rep(D, 1, 2), Lit(","),
             S1, Rep(D, 4, 4)>>)),
    \* ^\s*\d+\.\d+\.\d+
    Cs(Cat(<<Bol, S0, Plus(D), Lit("."), Plus(D), Lit("."), Plus(D)>>)),
    \* ^(Error|Warning|INFO|DEBUG|WARN):
    Cs(Cat(<<Bol, Words(<<"Error", "Warning", "INFO", "DEBUG", "WARN">>), Lit(":")>>)),
    \* ^\s*(GET|POST|PUT|DELETE|PATCH)\s+/
    Cs(Cat(<<Bol, S0, Words(<<"GET", "POST", "PUT", "DELETE", "PATCH">>), S1, Lit("/")>>)),
    \* Traceback \(most recent call last\)
    Cs(Lit("Traceback (most recent call last)")),
    \* ^\s*at\s+\w+\.\w+\(
    Cs(Cat(<<Bol, S0, Lit("at"), S1, WPlus, Lit("."), WPlus, Lit("(")>>)),
    \* ^npm\s+(ERR|WARN)!
    Cs(Cat(<<Bol, Lit("npm"), S1, Words(<<"ERR", "WARN">>), Lit("!")>>)),
    \* (?i)I'?m\s+(?:still\s+)?getting\s+(?:a\s+)?(?:an?\s+)?(?:error|exception|\d{3})
    Ci(Cat(<<Lit("I"), Apos, Lit("m"), S1, OptWord("still"), Lit("getting"), S1, OptWord("a"),
             Opt(Cat(<<Lit("a"), Opt(Lit("n")), S1>>)),
             Alt(<<Lit("error"), Lit("exception"), Rep(D, 3, 3)>>)>>)),
    \* (?i)getting\s+a\s+\d{3}
    Ci(Cat(<<Lit("getting"), S1, Lit("a"), S1, Rep(D, 3, 3)>>)),
    \* @\w+/\w+:dev:
    Cs(Cat(<<Lit("@"), WPlus, Lit("/"), WPlus, Lit(":dev:")>>)),
    \* (check mark)\s+(?:Starting|Compiled|Ready)
    Cs(Cat(<<NonAscii, S1, Words(<<"Starting", "Compiled", "Ready">>)>>)),
    \* (circle)\s+Compiling
    Cs(Cat(<<NonAscii, S1, Lit("Compiling")>>)),
    \* ^(Start|File|Edit|View|Help)\s*$
    Cs(Cat(<<Bol, Words(<<"Start", "File", "Edit", "View", "Help">>), S0, Eol>>)),
    \* ^\s*(Open|Save|Close|New)\s+(File|Folder)
    Cs(Cat(<<Bol, S0, Words(<<"Open", "Save", "Close", "New">>), S1, Words(<<"File", "Folder">>)>>)),
    \* ^Recent\s*$
    Cs(Cat(<<Bol, Lit("Recent"), S0, Eol>>)),
    \* Walkthroughs
    Cs(Lit("Walkthroughs")),
    \* ^\s*\[\s*\d+\s*\]
    Cs(Cat(<<Bol, S0, Lit("["), S0, Plus(D), S0, Lit("]")>>)),
    \* <system-reminder>
    Cs(Lit("<system-reminder>")),
    \* <ide_opened_file>
    Cs(Lit("<ide_opened_file>")),
    \* <ide_selection>
    Cs(Lit("<ide_selection>")),
    \* <ide_
    Cs(Lit("<ide_")),
    \* <user-prompt-submit-hook>
    Cs(Lit("<user-prompt-submit-hook>")),
    \* ^Base directory for this skill:
    Cs(Cat(<<Bol, Lit("Base directory for this skill:")>>)),
    \* ^# .{50,}
    Cs(Cat(<<Bol, Lit("# "), Rep(Dot, 50, Inf)>>)),
    \* (Starting|Stopping)\s+Container
    Cs(Cat(<<Words(<<"Starting", "Stopping">>), S1, Lit("Container")>>)),
    \* Successfully\s+(built|deployed|installed)
    Cs(Cat(<<Lit("Successfully"), S1, Words(<<"built", "deployed", "installed">>)>>)),
    \* Downloading\s+\w+
    Cs(Cat(<<Lit("Downloading"), S1, WPlus>>)),
    \* ^\s*(heavy line)+
    Cs(Cat(<<Bol, S0, Plus(NonAscii)>>)),
    \* ^.{1,15}$
    Cs(Cat(<<Bol, Rep(Dot, 1, 15), Eol>>))
>>

task_patterns == <<
    \* (?i)(?:can you|could you|would you|please)\s+(?:also\s+)?(?:update|add|create|write|fix|change|modify|remove|delete|run|test|check|show|make|build)
    Ci(Cat(<<Words(<<"can you", "could you", "would you", "please">>), S1, OptWord("also"),
             Words(<<"update", "add", "create", "write", "fix", "change", "modify", "remove",
                     "delete", "run", "test", "check", "show", "make", "build">>)>>)),
    \* (?i)(?:I need|I want|I'd like)\s+(?:you\s+)?(?:to\s+)?
    Ci(Cat(<<Words(<<"I need", "I want", "I'd like">>), S1, OptWord("you"), OptWord("to")>>)),
    \* (?i)(?:let's|lets)\s+(?:add|create|write|fix|change|modify|build|test|run|make\s+sure|check)
    Ci(Cat(<<Words(<<"let's", "lets">>), S1,
             Alt(<<Lit("add"), Lit("create"), Lit("write"), Lit("fix"), Lit("change"), Lit("modify"),
                   Lit("build"), Lit("test"), Lit("run"), Cat(<<Lit("make"), S1, Lit("sure")>>),
                   Lit("check")>>)>>)),
    \* (?i)^(?:update|add|create|write|fix|change|modify|remove|delete|run|test)\s+
    Ci(Cat(<<Bol, Words(<<"update", "add", "create", "write", "fix", "change", "modify", "remove",
                          "delete", "run", "test">>), S1>>)),
    \* (?i)write\s+this\s+as\s+
    Ci(Cat(<<Lit("write"), S1, Lit("this"), S1, Lit("as"), S1>>)),
    \* (?i)change\s+this\s+to\s+
    Ci(Cat(<<Lit("change"), S1, Lit("this"), S1, Lit("to"), S1>>)),
    \* (?i)make\s+this\s+
    Ci(Cat(<<Lit("make"), S1, Lit("this"), S1>>)),
    \* (?i)make\s+sure\s+(?:this|that|it)
    Ci(Cat(<<Lit("make"), S1, Lit("sure"), S1, Words(<<"this", "that", "it">>)>>))
>>

behavioral_signals == <<
    \* (?i)\balways\b
    Ci(Cat(<<Wb, Lit("always"), Wb>>)),
    \* (?i)\bnever\b
    Ci(Cat(<<Wb, Lit("never"), Wb>>)),
    \* (?i)\bwhen\s+working\b
    Ci(Cat(<<Wb, Lit("when"), S1, Lit("working"), Wb>>)),
    \* (?i)\bfor\s+\w+\s+(?:projects?|files?)\b
    Ci(Cat(<<Wb, Lit("for"), S1, WPlus, S1,
             Alt(<<Cat(<<Lit("project"), Opt(Lit("s"))>>), Cat(<<Lit("file"), Opt(Lit("s"))>>)>>),
             Wb>>)),
    \* (?i)\bin\s+(?:all|every)\b
    Ci(Cat(<<Wb, Lit("in"), S1, Words(<<"all", "every">>), Wb>>)),
    \* (?i)\bby\s+default\b
    Ci(Cat(<<Wb, Lit("by"), S1, Lit("default"), Wb>>)),
    \* (?i)\bprefer\b
    Ci(Cat(<<Wb, Lit("prefer"), Wb>>)),
    \* (?i)\bgoing\s+forward\b
    Ci(Cat(<<Wb, Lit("going"), S1, Lit("forward"), Wb>>)),
    \* (?i)\bfrom\s+now\s+on\b
    Ci(Cat(<<Wb, Lit("from"), S1, Lit("now"), S1, Lit("on"), Wb>>)),
    \* (?i)\bmake\s+sure\s+to\b
    Ci(Cat(<<Wb, Lit("make"), S1, Lit("sure"), S1, Lit("to"), Wb>>)),
    \* (?i)\bremember\s+to\b
    Ci(Cat(<<Wb, Lit("remember"), S1, Lit("to"), Wb>>)),
    \* (?i)\bshould\s+(?:always|never)\b
    Ci(Cat(<<Wb, Lit("should"), S1, Words(<<"always", "never">>), Wb>>)),
    \* (?i)^(?:don'?t|never)\s+\w+\s+\w+
    Ci(Cat(<<Bol, Alt(<<Dont, Lit("never")>>), S1, WPlus, S1, WPlus>>)),
    \* (?i)\binstead\s+of\b.*\bfor\b
    Ci(Cat(<<Wb, Lit("instead"), S1, Lit("of"), Wb, Star(Dot), Wb, Lit("for"), Wb>>))
>>

\* the syntax trees of negation_patterns (all (?i), no groups)
negation_trees == <<
    \* (?i)\bdon'?t\s+\w+
    Cat(<<Wb, Dont, S1, WPlus>>),
    \* (?i)\bnever\s+\w+
    Cat(<<Wb, Lit("never"), S1, WPlus>>),
    \* (?i)\bno\s+need\b
    Cat(<<Wb, Lit("no"), S1, Lit("need"), Wb>>),
    \* (?i)\bnot\s+\w+
    Cat(<<Wb, Lit("not"), S1, WPlus>>),
    \* (?i)\bavoid\s+\w+
    Cat(<<Wb, Lit("avoid"), S1, WPlus>>)
>>

negation_patterns == [j \in 1..Len(negation_trees) |-> Ci(negation_trees[j])]

\* pattern + r"[^.!?]*"
negation_clause_patterns ==
    [j \in 1..Len(negation_trees) |-> Ci(Cat(<<negation_trees[j], Star(NCls({".", "!", "?"}))>>))]

(***************************************************************************)
(* corrections.py: the signal filters and the rule extractor.              *)
(* None is modelled as the empty string: every caller tests a rule or a    *)
(* file reference for truthiness only, which None and "" both fail.        *)
(***************************************************************************)
None == ""

AnyMatch(ps, s) == \E j \in 1..Len(ps) : Matches(ps[j], s)

is_positive_feedback(text) == AnyMatch(POSITIVE_PATTERNS, Strip(text))

LongMessageLimit == 1000

ManyNewlinesLimit == 10

\* the grave accent character
Backtick == Ch("`'", 1)

\* the fourteen characters of the literal at corrections.py:167
SpecialChars == {"{", "}", "[", "]", "(", ")", "<", ">", "|", "&", ";", "$", Backtick, Ch("\\ ", 1)}

CountIn(text, S) == Cardinality({i \in 1..Len(text) : Ch(text, i) \in S})

\* a faulty variant of is_noise_content: the rule on newlines is missing
noise_without_newline_rule(text) ==
    IF Len(text) > LongMessageLimit THEN TRUE
    ELSE IF \E j \in 1..Len(NOISE_INDICATORS) : MatchesML(NOISE_INDICATORS[j], text) THEN TRUE
    ELSE IF Len(text) > 50 /\ CountIn(text, SpecialChars) * 100 > 15 * Len(text) THEN TRUE
    ELSE FALSE

is_noise_content(text) ==
    IF Len(text) > LongMessageLimit THEN TRUE
    ELSE IF \E j \in 1..Len(NOISE_INDICATORS) : MatchesML(NOISE_INDICATORS[j], text) THEN TRUE
    \* special_chars / len(text) > 0.15
    ELSE IF Len(text) > 50 /\ CountIn(text, SpecialChars) * 100 > 15 * Len(text) THEN TRUE
    ELSE IF CountIn(text, {"\n"}) > ManyNewlinesLimit THEN TRUE
    ELSE FALSE

is_task_request(text) == AnyMatch(task_patterns, text)

is_behavioral_preference(text) ==
    IF EndsWith(Strip(text), "?") THEN FALSE
    ELSE IF Len(Strip(text)) < 20 THEN FALSE
    ELSE AnyMatch(behavioral_signals, text)

\* the first group of match.groups() that is set and longer than 15 characters, stripped
LongGroup(text, m) ==
    LET gs == Groups(text, m)
        long == {g \in 1..Len(gs) : Len(gs[g]) > 0 /\ Len(gs[g][1]) > 15}
    IN  IF long = {} THEN None ELSE Strip(gs[SetMin(long)][1])

\* a faulty variant of extract_correction_rule: a negation is not looked for
extract_ignoring_negation(user_message) ==
    LET text == Strip(user_message)
        grouped == {j \in 1..Len(CORRECTION_PATTERNS) :
                       /\ CORRECTION_PATTERNS[j].p.ng > 0
                       /\ Matches(CORRECTION_PATTERNS[j].p, text)}
    IN  IF is_task_request(text) THEN None
        ELSE IF ~is_behavioral_preference(text) THEN None
        ELSE IF grouped # {} THEN
            LET long == LongGroup(text, Search(CORRECTION_PATTERNS[SetMin(grouped)].p, text))
            IN  IF long # None THEN long
                ELSE IF Len(text) < 200 THEN text
                ELSE None
        ELSE IF Len(text) < 200 THEN text
        ELSE None

\* a faulty variant of extract_correction_rule: task requests are not turned away
extract_from_task_requests(user_message) ==
    LET text == Strip(user_message)
        has_negation == AnyMatch(negation_patterns, text)
        clauses == {j \in 1..Len(negation_clause_patterns) :
                       /\ Matches(negation_clause_patterns[j], text)
                       /\ Len(Group0(text, Search(negation_clause_patterns[j], text))) > 15}
        grouped == {j \in 1..Len(CORRECTION_PATTERNS) :
                       /\ CORRECTION_PATTERNS[j].p.ng > 0
                       /\ Matches(CORRECTION_PATTERNS[j].p, text)}
    IN  IF ~is_behavioral_preference(text) THEN None
        ELSE IF has_negation THEN
            IF Len(text) < 200 THEN text
            ELSE IF clauses = {} THEN None
            ELSE LET p == negation_clause_patterns[SetMin(clauses)]
                 IN  Strip(Group0(text, Search(p, text)))
        ELSE IF grouped # {} THEN
            LET long == LongGroup(text, Search(CORRECTION_PATTERNS[SetMin(grouped)].p, text))
            IN  IF long # None THEN long
                ELSE IF Len(text) < 200 THEN text
                ELSE None
        ELSE IF Len(text) < 200 THEN text
        ELSE None

extract_correction_rule(user_message) ==
    LET text == Strip(user_message)
        has_negation == AnyMatch(negation_patterns, text)
        \* the negation patterns, in order, whose clause is longer than 15 characters
        clauses == {j \in 1..Len(negation_clause_patterns) :
                       /\ Matches(negation_clause_patterns[j], text)
                       /\ Len(Group0(text, Search(negation_clause_patterns[j], text))) > 15}
        \* a pattern without groups has empty match.groups(): the scan goes on
        grouped == {j \in 1..Len(CORRECTION_PATTERNS) :
                       /\ CORRECTION_PATTERNS[j].p.ng > 0
                       /\ Matches(CORRECTION_PATTERNS[j].p, text)}
    IN  IF is_task_request(text) THEN None
        ELSE IF ~is_behavioral_preference(text) THEN None
        ELSE IF has_negation THEN
            IF Len(text) < 200 THEN text
            ELSE IF clauses = {} THEN None
            ELSE LET p == negation_clause_patterns[SetMin(clauses)]
                 IN  Strip(Group0(text, Search(p, text)))
        ELSE IF grouped # {} THEN
            LET long == LongGroup(text, Search(CORRECTION_PATTERNS[SetMin(grouped)].p, text))
            IN  IF long # None THEN long
                ELSE IF Len(text) < 200 THEN text
                ELSE None
        ELSE IF Len(text) < 200 THEN text
        ELSE None

\* \.(\w{1,10})\b
ExtPattern == Re(Cat(<<Lit("."), Grp(1, Rep(W, 1, 10)), Wb>>), 1, FALSE)

TypePat(r, ext) == [p |-> Re(Cat(<<Wb, Grp(1, r)>>), 1, TRUE), ext |-> ext]

type_patterns == <<
    \* (?i)\b(python|py)\b
    TypePat(Cat(<<Words(<<"python", "py">>), Wb>>), ".py"),
    \* (?i)\b(typescript|ts)\b
    TypePat(Cat(<<Words(<<"typescript", "ts">>), Wb>>), ".ts"),
    \* (?i)\b(javascript|js)\b
    TypePat(Cat(<<Words(<<"javascript", "js">>), Wb>>), ".js"),
    \* (?i)\b(quarto|qmd)\b
    TypePat(Cat(<<Words(<<"quarto", "qmd">>), Wb>>), ".qmd"),
    \* (?i)\b(r\s+files?|\.r\b)
    TypePat(Alt(<<Cat(<<Lit("r"), S1, Lit("file"), Opt(Lit("s"))>>), Cat(<<Lit(".r"), Wb>>)>>), ".R"),
    \* (?i)\b(markdown|md)\b
    TypePat(Cat(<<Words(<<"markdown", "md">>), Wb>>), ".md"),
    \* (?i)\b(rust|rs)\b
    TypePat(Cat(<<Words(<<"rust", "rs">>), Wb>>), ".rs"),
    \* (?i)\b(go|golang)\b
    TypePat(Cat(<<Words(<<"go", "golang">>), Wb>>), ".go")
>>

extract_file_reference(text) ==
    LET ext_match == Search(ExtPattern, text)
        types == {j \in 1..Len(type_patterns) : Matches(type_patterns[j].p, text)}
    IN  IF Len(ext_match) > 0 THEN "." \o Groups(text, ext_match)[1][1]
        ELSE IF types # {} THEN type_patterns[SetMin(types)].ext
        ELSE None

(***************************************************************************)
(* Timestamps are ISO-8601 strings; Python's min/max and SQLite's ORDER BY *)
(* compare them character by character in code-point order.               *)
(***************************************************************************)
\* the characters of a timestamp, in code-point order
TimestampChars == "+-.0123456789:TZ"

Ord(c) == CHOOSE i \in 1..Len(TimestampChars) : Ch(TimestampChars, i) = c

\* a < b as Python and SQLite order strings
StrLess(a, b) ==
    LET n == IF Len(a) < Len(b) THEN Len(a) ELSE Len(b)
        diff == {i \in 1..n : Ch(a, i) # Ch(b, i)}
    IN  IF diff = {} THEN Len(a) < Len(b)
        ELSE Ord(Ch(a, SetMin(diff))) < Ord(Ch(b, SetMin(diff)))

StrMin(S) == CHOOSE a \in S : \A b \in S : ~StrLess(b, a)

StrMax(S) == CHOOSE a \in S : \A b \in S : ~StrLess(a, b)

Min(a, b) == IF a <= b THEN a ELSE b

Max(a, b) == IF a >= b THEN a ELSE b

(***************************************************************************)
(* src/analysis/preferences.py                                             *)
(***************************************************************************)
CatPat(r) == Re(Grp(1, r), 1, TRUE)

PREFERENCE_CATEGORIES == <<
    [category |-> "formatting", patterns |-> <<
        \* (?i)(format|style|indent|spacing|whitespace|line\s*length)
        CatPat(Alt(<<Lit("format"), Lit("style"), Lit("indent"), Lit("spacing"), Lit("whitespace"),
                     Cat(<<Lit("line"), S0, Lit("length")>>)>>)),
        \* (?i)(pipe|operator|symbol)
        CatPat(Words(<<"pipe", "operator", "symbol">>)),
        \* (?i)(quote|string|apostrophe)
        CatPat(Words(<<"quote", "string", "apostrophe">>))>>],
    [category |-> "structure", patterns |-> <<
        \* (?i)(structure|organize|order|layout|arrange)
        CatPat(Words(<<"structure", "organize", "order", "layout", "arrange">>)),
        \* (?i)(header|section|comment|docstring)
        CatPat(Words(<<"header", "section", "comment", "docstring">>)),
        \* (?i)(import|export|module)
        CatPat(Words(<<"import", "export", "module">>))>>],
    [category |-> "patterns", patterns |-> <<
        \* (?i)(pattern|approach|method|technique|way)
        CatPat(Words(<<"pattern", "approach", "method", "technique", "way">>)),
        \* (?i)(error\s*handling|validation|check)
        CatPat(Alt(<<Cat(<<Lit("error"), S0, Lit("handling")>>), Lit("validation"), Lit("check")>>)),
        \* (?i)(naming|convention|variable)
        CatPat(Words(<<"naming", "convention", "variable">>))>>],
    [category |-> "workflow", patterns |-> <<
        \* (?i)(test|build|run|render|compile|deploy)
        CatPat(Words(<<"test", "build", "run", "render", "compile", "deploy">>)),
        \* (?i)(commit|git|branch|merge)
        CatPat(Words(<<"commit", "git", "branch", "merge">>)),
        \* (?i)(step|process|workflow|procedure)
        CatPat(Words(<<"step", "process", "workflow", "procedure">>))>>],
    [category |-> "communication", patterns |-> <<
        \* (?i)(verbose|concise|brief|detailed)
        CatPat(Words(<<"verbose", "concise", "brief", "detailed">>)),
        \* (?i)(explain|describe|comment)
        CatPat(Words(<<"explain", "describe", "comment">>)),
        \* (?i)(emoji|formatting|markdown)
        CatPat(Words(<<"emoji", "formatting", "markdown">>))>>]
>>

categorize_preference(text) ==
    LET text_lower == Lower(text)
        hit == {c \in 1..Len(PREFERENCE_CATEGORIES) :
                   AnyMatch(PREFERENCE_CATEGORIES[c].patterns, text_lower)}
    IN  IF hit # {} THEN PREFERENCE_CATEGORIES[SetMin(hit)].category
        ELSE "patterns"

\* the prefixes of preferences.py:80, in order
KeyPrefixes == <<"please ", "always ", "never ", "don't ", "do not ">>

\* a faulty variant of generate_preference_key: the text is not lower-cased
key_keeping_case(text, file_ext) ==
    LET stripped == Strip(text)
        found == {j \in 1..Len(KeyPrefixes) : StartsWith(stripped, KeyPrefixes[j])}
        normalized == IF found = {} THEN stripped
                      ELSE Suffix(stripped, Len(KeyPrefixes[SetMin(found)]))
    IN  IF file_ext # None THEN file_ext \o ":" \o Prefix(normalized, 50)
        ELSE Prefix(normalized, 50)

generate_preference_key(text, file_ext) ==
    LET lowered == Strip(Lower(text))
        found == {j \in 1..Len(KeyPrefixes) : StartsWith(lowered, KeyPrefixes[j])}
        \* only the first prefix that matches is removed, once
        normalized == IF found = {} THEN lowered
                      ELSE Suffix(lowered, Len(KeyPrefixes[SetMin(found)]))
        truncated == Prefix(normalized, 100)
    IN  IF file_ext # None THEN file_ext \o ":" \o Prefix(truncated, 50)
        ELSE Prefix(truncated, 50)

\* a faulty variant of repetition_boost: the boost is not capped
unbounded_boost(occurrence_count) == occurrence_count * 10

\* min(occurrence_count * 0.1, 0.4), in hundredths
repetition_boost(occurrence_count) == Min(occurrence_count * 10, 40)

\* a faulty variant of base_confidence: the confidence of the record is forgotten
new_confidence(existing, new) == new.confidence

\* max(existing.confidence, new.confidence)
base_confidence(existing, new) == Max(existing.confidence, new.confidence)

\* a faulty variant of LastN: s[:n], the entries inserted first are kept
FirstN(s, n) == IF Len(s) <= n THEN s ELSE SubSeq(s, 1, n)

\* s[-n:]
LastN(s, n) == IF Len(s) <= n THEN s ELSE SubSeq(s, Len(s) - n + 1, Len(s))

\* how many evidence entries a merge keeps
EvidenceLimit == 10

\* a faulty variant of merge_preferences: the new Preference is kept and takes over the
\* evidence and the count of the record
merge_overwriting(existing, new) ==
    [new EXCEPT !.evidence = LastN(existing.evidence \o new.evidence, EvidenceLimit),
                !.occurrence_count = existing.occurrence_count + 1,
                !.confidence = Min(base_confidence(existing, new)
                                   + repetition_boost(existing.occurrence_count + 1), 100)]

\* a faulty variant of merge_preferences: the record keeps its first_seen and takes the
\* last_seen of the new Preference, the evidence is not consulted
merge_without_timestamps(existing, new) ==
    [existing EXCEPT !.file_extension = IF existing.file_extension # None
                                        THEN existing.file_extension ELSE new.file_extension,
                     !.evidence = LastN(existing.evidence \o new.evidence, EvidenceLimit),
                     !.occurrence_count = existing.occurrence_count + 1,
                     !.confidence = Min(base_confidence(existing, new)
                                        + repetition_boost(existing.occurrence_count + 1), 100),
                     !.last_seen = new.last_seen]

merge_preferences(existing, new) ==
    LET combined_evidence == existing.evidence \o new.evidence
        timestamps == {combined_evidence[i].timestamp : i \in 1..Len(combined_evidence)} \ {""}
        first_seen == IF timestamps # {} THEN StrMin(timestamps) ELSE existing.first_seen
        last_seen == IF timestamps # {} THEN StrMax(timestamps) ELSE new.last_seen
        occurrence_count == existing.occurrence_count + 1
        confidence == Min(base_confidence(existing, new) + repetition_boost(occurrence_count),
                          100)
    IN  [id |-> existing.id,
         file_extension |-> IF existing.file_extension # None THEN existing.file_extension
                            ELSE new.file_extension,
         category |-> existing.category,
         preference_key |-> existing.preference_key,
         preference_value |-> existing.preference_value,
         evidence |-> LastN(combined_evidence, EvidenceLimit),
         occurrence_count |-> occurrence_count,
         confidence |-> confidence,
         first_seen |-> first_seen,
         last_seen |-> last_seen]

(***************************************************************************)
(* The table file_type_preferences is a set of rows.  Its schema           *)
(* (database.py:132-146) has PRIMARY KEY id and UNIQUE(file_extension,     *)
(* preference_key); the evidence column holds json.dumps of a list of      *)
(* dicts of strings, which json.loads gives back unchanged.                *)
(***************************************************************************)
\* the rows the INSERT of save_preference conflicts with on the UNIQUE pair
Conflicting(table, pref) ==
    {row \in table : /\ row.file_extension = pref.file_extension
                     /\ row.preference_key = pref.preference_key}

\* a faulty variant of save_preference: the UPDATE leaves occurrence_count alone
save_without_counting(table, pref) ==
    LET conflict == Conflicting(table, pref)
        updated(row) == [row EXCEPT !.evidence = pref.evidence,
                                    !.confidence = pref.confidence,
                                    !.last_seen = pref.last_seen]
    IN  IF conflict # {} THEN (table \ conflict) \cup {updated(row) : row \in conflict}
        ELSE IF \E row \in table : row.id = pref.id THEN table
        ELSE table \cup {pref}

\* a faulty variant of save_preference: a plain INSERT into a table without constraints
insert_preference(table, pref) == table \cup {pref}

\* the table after save_preference(db, pref)
save_preference(table, pref) ==
    LET conflict == Conflicting(table, pref)
        updated(row) == [row EXCEPT !.evidence = pref.evidence,
                                    !.occurrence_count = row.occurrence_count + 1,
                                    !.confidence = pref.confidence,
                                    !.last_seen = pref.last_seen]
    IN  IF conflict # {} THEN (table \ conflict) \cup {updated(row) : row \in conflict}
        \* a row with this id and another pair: the INSERT fails on the PRIMARY KEY
        ELSE IF \E row \in table : row.id = pref.id THEN table
        ELSE table \cup {pref}

\* get_preference(db, file_ext, pref_key): a sequence holding the row found, if any
get_preference(table, file_ext, pref_key) ==
    LET found == {row \in table : row.file_extension = file_ext /\ row.preference_key = pref_key}
    IN  IF found = {} THEN <<>> ELSE <<CHOOSE row \in found : TRUE>>

(***************************************************************************)
(* The transcripts the sessions write (one .jsonl file per conversation,   *)
(* ingest.py:54-105).  Each record is a RawMessage.                        *)
(***************************************************************************)
Raw(uuid, type, content, timestamp) ==
    [uuid |-> uuid, type |-> type, content |-> content, timestamp |-> timestamp]

\* a message of 63 characters and 11 newlines
ManyLines == "always keep the lines long" \o Times("\n", ManyNewlinesLimit + 1)
                 \o "this is the very last line"

Transcripts == [
    c1 |-> <<Raw("a1", "assistant", "I ran the linter after the commit.", "2025-01-01T10:00:00Z"),
             Raw("u1", "user", "Always run the linter before each commit", "2025-01-01T10:01:00Z"),
             Raw("u2", "user", "Great, but always use tabs for indentation from now on",
                 "2025-01-01T10:02:00Z"),
             Raw("u3", "user", "never run the LINTER before each commit", "2025-01-03T09:00:00Z")>>,
    c2 |-> <<Raw("v1", "user", "Can you actually put the tests first by default", ""),
             Raw("v2", "user", ManyLines, "2025-01-02T08:00:00Z"),
             Raw("v3", "user", Times("always use tabs. ", 60), "2025-01-02T08:05:00Z")>>
]

ConversationIds == DOMAIN Transcripts

\* project_path_from_file: the project directory of each transcript
ProjectPath == [c1 |-> "/home/b/app", c2 |-> "/home/b/site"]

\* the user messages of the transcripts
Texts == UNION {{Transcripts[c][k].content : k \in {k \in 1..Len(Transcripts[c]) :
                                                      Transcripts[c][k].type = "user"}} :
                c \in ConversationIds}

\* how many times the pipeline runs
MaxRuns == 2

VARIABLES
    files,          \* conversation id -> the records written to its transcript so far
    conversations,  \* table conversations: rows [id, project_path]
    messages,       \* table messages: rows [id, conversation_id, role, content, timestamp]
    corrections,    \* table corrections
    preferences,    \* table file_type_preferences
    pc,             \* where run_pipeline stands: "idle", "detect" or "extract"
    pending,        \* step 3: the conversations detect_all_corrections has yet to scan
    todo,           \* step 4: the corrections process_corrections_to_preferences has yet to fold
    runs,           \* pipeline runs finished
    text_facts,     \* content -> the values of the pure functions of corrections.py on it
    rule_facts,     \* extracted rule -> the values of the pure functions of preferences.py on it
    last,           \* the last fold: the row found, the new Preference, the Preference saved
    history,        \* (file_extension, preference_key) -> what was folded into the pair
    review_queue,   \* table review_queue, each row with its rows of review_evidence
    learned_rules,  \* table learned_rules
    result,         \* run_pipeline: the steps attempted and the PipelineResult in the making
    llm,            \* extract_preferences_batch: the batches to send, the calls made, the results
    note            \* a review note: its item, its text as the user left it, what was parsed

vars == <<files, conversations, messages, corrections, preferences, pc, pending, todo, runs,
          text_facts, rule_facts, last, history, review_queue, learned_rules, result, llm, note>>

(***************************************************************************)
(* The body of the message loop of detect_corrections_in_conversation for  *)
(* one user message, up to the confidence arithmetic: the two filters, the *)
(* pattern loop, the rule and the file reference.                          *)
(***************************************************************************)
Skipped(why) == [skip |-> why, correction_type |-> "", base_confidence |-> 0,
                 extracted_rule |-> None, file_touched |-> None]

\* a faulty variant of scan_user_message: the last pattern that matches decides
scan_last_pattern(content) ==
    LET hits == {j \in 1..Len(PREFERENCE_PATTERNS) : Matches(PREFERENCE_PATTERNS[j].p, content)}
        extracted_rule == extract_correction_rule(content)
    IN  IF is_positive_feedback(content) THEN Skipped("positive")
        ELSE IF is_noise_content(content) THEN Skipped("noise")
        ELSE IF hits = {} \/ extracted_rule = None THEN Skipped("no rule")
        ELSE [skip |-> "",
              correction_type |-> PREFERENCE_PATTERNS[SetMax(hits)].type,
              base_confidence |-> PREFERENCE_PATTERNS[SetMax(hits)].conf,
              extracted_rule |-> extracted_rule,
              file_touched |-> extract_file_reference(content)]

\* a faulty variant of scan_user_message: positive feedback is not looked for
scan_without_feedback_check(content) ==
    LET hits == {j \in 1..Len(PREFERENCE_PATTERNS) : Matches(PREFERENCE_PATTERNS[j].p, content)}
        extracted_rule == extract_correction_rule(content)
    IN  IF is_noise_content(content) THEN Skipped("noise")
        ELSE IF hits = {} \/ extracted_rule = None THEN Skipped("no rule")
        ELSE [skip |-> "",
              correction_type |-> PREFERENCE_PATTERNS[SetMin(hits)].type,
              base_confidence |-> PREFERENCE_PATTERNS[SetMin(hits)].conf,
              extracted_rule |-> extracted_rule,
              file_touched |-> extract_file_reference(content)]

scan_user_message(content) ==
    LET hits == {j \in 1..Len(PREFERENCE_PATTERNS) : Matches(PREFERENCE_PATTERNS[j].p, content)}
        extracted_rule == extract_correction_rule(content)
    IN  IF is_positive_feedback(content) THEN Skipped("positive")
        ELSE IF is_noise_content(content) THEN Skipped("noise")
        \* the rule does not depend on the pattern: without one every pattern is passed over
        ELSE IF hits = {} \/ extracted_rule = None THEN Skipped("no rule")
        ELSE [skip |-> "",
              correction_type |-> PREFERENCE_PATTERNS[SetMin(hits)].type,
              base_confidence |-> PREFERENCE_PATTERNS[SetMin(hits)].conf,
              extracted_rule |-> extracted_rule,
              file_touched |-> extract_file_reference(content)]

(***************************************************************************)
(* TLC evaluates a recursive operator anew at every use, so the values of  *)
(* the text functions on the texts of the transcripts are computed once,   *)
(* in Init, and the actions read them from text_facts and rule_facts.      *)
(***************************************************************************)
TextFacts(content) ==
    [is_positive_feedback |-> is_positive_feedback(content),
     is_noise_content |-> is_noise_content(content),
     scan_user_message |-> scan_user_message(content),
     length |-> Len(content),
     newlines |-> CountIn(content, {"\n"})]

RuleFacts(rule) ==
    [categorize_preference |-> categorize_preference(rule),
     generate_preference_key |-> generate_preference_key(rule, None)]

\* a faulty variant of cap_single_occurrence: no cap
uncapped(confidence) == confidence

\* min(confidence, 0.65), corrections.py:390
cap_single_occurrence(confidence) == Min(confidence, 65)

\* a faulty variant of adjust_confidence: a file reference adds nothing
adjust_without_file(base, prev_assistant_msg, file_touched) ==
    Min(cap_single_occurrence(base + (IF prev_assistant_msg # <<>> THEN 5 ELSE 0)), 100)

\* the adjustment of corrections.py:380-390 and the min of line 400
adjust_confidence(base, prev_assistant_msg, file_touched) ==
    LET with_context == base + (IF prev_assistant_msg # <<>> THEN 5 ELSE 0)
        with_file == with_context + (IF file_touched # None THEN 5 ELSE 0)
    IN  Min(cap_single_occurrence(with_file), 100)

\* str(uuid.uuid4())[:16]: an identifier no other call returns.  The model names it after
\* the pipeline run and the row it is made for, which no two calls share.
uuid4(kind, made_for) == <<kind, runs, made_for>>

\* the orders in which ORDER BY timestamp may return the rows S
OrderedByTimestamp(S) ==
    {o \in [1..Cardinality(S) -> S] :
        /\ \A i, j \in 1..Cardinality(S) : i # j => o[i] # o[j]
        /\ \A i, j \in 1..Cardinality(S) : i < j => ~StrLess(o[j].timestamp, o[i].timestamp)}

\* prev_assistant_msg when the loop reaches rows[i]: the assistant row just before it
prev_assistant_msg(rows, i) ==
    LET before == {j \in 1..(i - 1) : rows[j].role \in {"assistant", "user"}}
    IN  IF before = {} THEN <<>>
        ELSE IF rows[SetMax(before)].role = "assistant" THEN <<rows[SetMax(before)]>>
        ELSE <<>>

\* detect_corrections_in_conversation, for the rows in the order the query returned them
detect_corrections_in_conversation(conversation_id, rows) ==
    LET conv_result == {conv \in conversations : conv.id = conversation_id}
        project_path == (CHOOSE conv \in conv_result : TRUE).project_path
        scan(i) == text_facts[rows[i].content].scan_user_message
        found == {i \in 1..Len(rows) : rows[i].role = "user" /\ scan(i).skip = ""}
        rank(i) == Cardinality({j \in found : j < i})
        detected(i) ==
            LET prev == prev_assistant_msg(rows, i)
            IN  [id |-> uuid4("correction", rows[i].id),
                 message_id |-> rows[i].id,
                 target_msg_id |-> IF prev # <<>> THEN prev[1].id ELSE None,
                 correction_type |-> scan(i).correction_type,
                 user_message |-> rows[i].content,
                 assistant_message |-> IF prev # <<>> THEN prev[1].content ELSE None,
                 extracted_rule |-> scan(i).extracted_rule,
                 confidence |-> adjust_confidence(scan(i).base_confidence, prev,
                                                  scan(i).file_touched),
                 conversation_id |-> conversation_id,
                 project_path |-> project_path,
                 timestamp |-> rows[i].timestamp,
                 file_touched |-> scan(i).file_touched]
    IN  IF conv_result = {} THEN <<>>
        ELSE [k \in 1..Cardinality(found) |-> detected(CHOOSE i \in found : rank(i) = k - 1)]

\* the table corrections after save_correction(db, correction): INSERT OR REPLACE on the id
save_correction(table, correction) ==
    {row \in table : row.id # correction.id} \cup
    {[id |-> correction.id,
      message_id |-> correction.message_id,
      target_msg_id |-> correction.target_msg_id,
      correction_type |-> correction.correction_type,
      extracted_rule |-> correction.extracted_rule,
      confidence |-> correction.confidence,
      reviewed |-> 0]}

\* the loop of run_pipeline step 3 over the Detections of one conversation
RECURSIVE save_corrections(_, _)
save_corrections(table, found) ==
    IF found = <<>> THEN table
    ELSE save_corrections(save_correction(table, Head(found)), Tail(found))

\* the rows of get_unprocessed_corrections, before ORDER BY
get_unprocessed_corrections ==
    {[id |-> c.id,
      message_id |-> c.message_id,
      target_msg_id |-> c.target_msg_id,
      correction_type |-> c.correction_type,
      extracted_rule |-> c.extracted_rule,
      confidence |-> c.confidence,
      user_message |-> m.content,
      assistant_message |-> None,
      timestamp |-> m.timestamp,
      project_path |-> conv.project_path,
      conversation_id |-> conv.id,
      file_touched |-> None] :
        <<c, m, conv>> \in {t \in corrections \X messages \X conversations :
                               /\ t[1].message_id = t[2].id
                               /\ t[2].conversation_id = t[3].id
                               /\ t[1].reviewed = 0}}

extract_preference_from_correction(correction, id) ==
    IF correction.extracted_rule = None THEN <<>>
    ELSE LET file_ext == correction.file_touched
             facts == rule_facts[correction.extracted_rule]
             \* generate_preference_key(rule, file_ext), from the key computed without extension
             pref_key == IF file_ext # None
                         THEN file_ext \o ":" \o facts.generate_preference_key
                         ELSE facts.generate_preference_key
         IN  <<[id |-> id,
                file_extension |-> file_ext,
                category |-> facts.categorize_preference,
                preference_key |-> pref_key,
                preference_value |-> correction.extracted_rule,
                evidence |-> <<[conversation_id |-> correction.conversation_id,
                                message |-> correction.user_message,
                                timestamp |-> correction.timestamp,
                                project_path |-> correction.project_path]>>,
                occurrence_count |-> 1,
                confidence |-> correction.confidence,
                first_seen |-> correction.timestamp,
                last_seen |-> correction.timestamp]>>

NoFold == [existing |-> <<>>, new |-> <<>>, saved |-> <<>>]

Init ==
    /\ text_facts = [t \in Texts |-> TextFacts(t)]
    /\ rule_facts = [r \in {text_facts[t].scan_user_message.extracted_rule : t \in Texts} \ {None}
                        |-> RuleFacts(r)]
    /\ files = [c \in ConversationIds |-> <<>>]
    /\ conversations = {}
    /\ messages = {}
    /\ corrections = {}
    /\ preferences = {}
    /\ pc = "idle"
    /\ pending = {}
    /\ todo = {}
    /\ runs = 0
    /\ last = NoFold
    /\ history = <<>>
    /\ review_queue = {}
    /\ learned_rules = {}
    /\ result = <<>>
    /\ llm = <<>>
    /\ note = <<>>

\* a session appends the next record to its transcript; the pipeline reads the
\* transcripts in step 1 only, so a record written during a run counts as written after it
Write(c) ==
    /\ pc = "idle"
    /\ Len(files[c]) < Len(Transcripts[c])
    /\ files' = [files EXCEPT ![c] = Append(@, Transcripts[c][Len(@) + 1])]
    /\ UNCHANGED <<conversations, messages, corrections, preferences, pc, pending, todo, runs,
                   text_facts, rule_facts, last, history,
                   review_queue, learned_rules, result, llm, note>>

\* the table messages after the upserts of save_conversation for one transcript
save_conversation(table, c) ==
    LET rows == {[id |-> files[c][k].uuid,
                  conversation_id |-> c,
                  role |-> files[c][k].type,
                  content |-> files[c][k].content,
                  timestamp |-> files[c][k].timestamp] : k \in 1..Len(files[c])}
    IN  {row \in table : \A new \in rows : new.id # row.id} \cup rows

\* run_pipeline step 1 (ingest_all_conversations: a transcript without messages is passed
\* over) and the query that opens step 3 (detect_all_corrections)
Ingest ==
    /\ pc = "idle"
    /\ runs < MaxRuns
    /\ LET found == {c \in ConversationIds : files[c] # <<>>}
       IN  /\ conversations' = conversations \cup
                                {[id |-> c, project_path |-> ProjectPath[c]] : c \in found}
           /\ messages' = UNION ({messages} \cup {save_conversation(messages, c) : c \in found})
    /\ pending' = {conv.id : conv \in conversations'}
    /\ pc' = "detect"
    /\ UNCHANGED <<files, corrections, preferences, todo, runs, text_facts, rule_facts, last,
                   history,
                   review_queue, learned_rules, result, llm, note>>

\* settings.analysis.review_threshold, in hundredths
ReviewThreshold == 50

\* the table review_queue after add_to_review_queue for the Detection of step 3: a plain
\* INSERT under a fresh id, with one row of review_evidence
add_to_review_queue(table, correction) ==
    table \cup {[id |-> uuid4("review", correction.id),
                 rule_type |-> correction.correction_type,
                 proposed_rule |-> correction.extracted_rule,
                 file_types |-> IF correction.file_touched # None
                                THEN <<correction.file_touched>> ELSE <<>>,
                 confidence |-> correction.confidence,
                 status |-> "pending",
                 evidence |-> <<[conversation_id |-> correction.conversation_id,
                                 project_path |-> correction.project_path,
                                 timestamp |-> correction.timestamp,
                                 message |-> correction.user_message,
                                 type |-> correction.correction_type]>>]}

\* run_pipeline step 3 for one conversation: the Detections are saved as they are yielded,
\* and those at or above the review threshold that carry a rule are put in the review queue
DetectConversation(c) ==
    /\ pc = "detect"
    /\ c \in pending
    /\ \E rows \in OrderedByTimestamp({m \in messages : m.conversation_id = c}) :
          LET found == detect_corrections_in_conversation(c, rows)
          IN  /\ corrections' = save_corrections(corrections, found)
              /\ review_queue' = UNION ({review_queue} \cup
                     {add_to_review_queue(review_queue, found[k]) :
                         k \in {k \in 1..Len(found) :
                                   /\ found[k].confidence >= ReviewThreshold
                                   /\ found[k].extracted_rule # None}})
    /\ pending' = pending \ {c}
    /\ UNCHANGED <<files, conversations, messages, preferences, pc, todo, runs, text_facts,
                   rule_facts, last, history, learned_rules, result, llm, note>>

\* run_pipeline step 4 begins: process_corrections_to_preferences fetches the corrections
StartExtract ==
    /\ pc = "detect"
    /\ pending = {}
    /\ todo' = get_unprocessed_corrections
    /\ pc' = "extract"
    /\ UNCHANGED <<files, conversations, messages, corrections, preferences, pending, runs,
                   text_facts, rule_facts, last, history,
                   review_queue, learned_rules, result, llm, note>>

Pair(pref) == <<pref.file_extension, pref.preference_key>>

\* what history records of a fold
Folded(correction, pref) ==
    IF Pair(pref) \in DOMAIN history
    THEN [history EXCEPT ![Pair(pref)] = [folded |-> @.folded + 1,
                                          top |-> Max(@.top, correction.confidence),
                                          created |-> @.created]]
    ELSE history @@ (Pair(pref) :> [folded |-> 1, top |-> correction.confidence, created |-> pref])

\* one turn of the loop of process_corrections_to_preferences; ORDER BY confidence DESC
\* leaves the order of corrections of equal confidence open
ProcessCorrection ==
    /\ pc = "extract"
    /\ \E correction \in todo :
          /\ \A other \in todo : other.confidence <= correction.confidence
          /\ LET pref == extract_preference_from_correction(correction, uuid4("preference", correction.id))
                 existing == get_preference(preferences, pref[1].file_extension,
                                            pref[1].preference_key)
                 saved == IF existing # <<>> THEN merge_preferences(existing[1], pref[1])
                          ELSE pref[1]
             IN  IF pref = <<>>
                 THEN UNCHANGED <<preferences, last, history>>
                 ELSE /\ preferences' = save_preference(preferences, saved)
                      /\ last' = [existing |-> existing, new |-> pref, saved |-> <<saved>>]
                      /\ history' = Folded(correction, pref[1])
          /\ todo' = todo \ {correction}
    /\ UNCHANGED <<files, conversations, messages, corrections, pc, pending, runs, text_facts,
                   rule_facts,
                   review_queue, learned_rules, result, llm, note>>

\* the loop of step 4 is over: the run ends
FinishRun ==
    /\ pc = "extract"
    /\ todo = {}
    /\ pc' = "idle"
    /\ runs' = runs + 1
    /\ UNCHANGED <<files, conversations, messages, corrections, preferences, pending, todo,
                   text_facts, rule_facts, last, history,
                   review_queue, learned_rules, result, llm, note>>

Next ==
    \/ \E c \in ConversationIds : Write(c)
    \/ Ingest
    \/ \E c \in ConversationIds : DetectConversation(c)
    \/ StartExtract
    \/ ProcessCorrection
    \/ FinishRun

Spec == Init /\ [][Next]_vars

(***************************************************************************)
(* merge_preferences on its own: a record as get_preference returns it and *)
(* a Preference as extract_preference_from_correction builds it are drawn  *)
(* from bounded sets, and Merge applies the function to them.              *)
(***************************************************************************)
\* the largest occurrence_count of the record drawn
MaxCount == 11

\* the timestamps of the observations, in no order; one message has none
Stamps == <<"2025-01-05T10:00:00Z", "2025-01-02T10:00:00Z", "", "2025-01-04T10:00:00Z",
            "2025-01-01T10:00:00Z">>

\* the evidence entry of the k-th observation of the preference
Observed(k) ==
    [conversation_id |-> IF k % 2 = 0 THEN "c1" ELSE "c2",
     message |-> IF k % 3 = 0 THEN "never run the LINTER before each commit"
                 ELSE "Always run the linter before each commit",
     timestamp |-> Stamps[(k % Len(Stamps)) + 1],
     project_path |-> IF k % 2 = 0 THEN ProjectPath.c1 ELSE ProjectPath.c2]

\* confidences of a stored record and of a new Preference, in hundredths
\* a stored record that has seen count observations
ExistingPreference(count, confidence) ==
    [id |-> uuid4("preference", "u1"),
     file_extension |-> None,
     category |-> "workflow",
     preference_key |-> "run the linter before each commit",
     preference_value |-> "run the linter before each commit",
     evidence |-> LastN([k \in 1..count |-> Observed(k)], EvidenceLimit),
     occurrence_count |-> count,
     confidence |-> confidence,
     first_seen |-> Observed(1).timestamp,
     last_seen |-> StrMax({Observed(k).timestamp : k \in 1..count})]

\* the Preference of the observation that follows them
NewPreference(count, confidence) ==
    [id |-> uuid4("preference", "u3"),
     file_extension |-> None,
     category |-> "workflow",
     preference_key |-> "run the linter before each commit",
     preference_value |-> Observed(count + 1).message,
     evidence |-> <<Observed(count + 1)>>,
     occurrence_count |-> 1,
     confidence |-> confidence,
     first_seen |-> Observed(count + 1).timestamp,
     last_seen |-> Observed(count + 1).timestamp]

MergeInit ==
    /\ text_facts = <<>>
    /\ rule_facts = <<>>
    /\ files = [c \in ConversationIds |-> <<>>]
    /\ conversations = {}
    /\ messages = {}
    /\ corrections = {}
    /\ preferences = {}
    /\ pc = "idle"
    /\ pending = {}
    /\ todo = {}
    /\ runs = 0
    /\ history = <<>>
    /\ review_queue = {}
    /\ learned_rules = {}
    /\ result = <<>>
    /\ llm = <<>>
    /\ note = <<>>
    /\ \E count \in 1..MaxCount, confidence \in {0, 30, 50, 65, 85, 100},
          seen \in {0, 50, 65, 100} :
          \* a record made of one Detection holds the confidence of that Detection
          /\ count = 1 => confidence <= 65
          /\ last = [existing |-> <<ExistingPreference(count, confidence)>>,
                     new |-> <<NewPreference(count, seen)>>,
                     saved |-> <<>>]

\* existing = get_preference(...); merged = merge_preferences(existing, pref)
Merge ==
    /\ last.existing # <<>>
    /\ last.saved = <<>>
    /\ last' = [last EXCEPT !.saved = <<merge_preferences(last.existing[1], last.new[1])>>]
    /\ UNCHANGED <<files, conversations, messages, corrections, preferences, pc, pending, todo,
                   runs, text_facts, rule_facts, history,
                   review_queue, learned_rules, result, llm, note>>

MergeSpec == MergeInit /\ [][Merge]_vars

(***************************************************************************)
(* One user message on its own: a conversation that holds one message of   *)
(* ProbeTexts, alone, just after an assistant turn, or after an assistant  *)
(* turn and another user message, has been ingested; steps 3 and 4 of the  *)
(* pipeline run on it.                                                     *)
(***************************************************************************)
\* a message of 215 characters whose negation clause is long
LongNegation ==
    Times("From now on the answers should be kept short. ", 3)
        \o "Never paste the whole file into the answer again. That is all there is to it."

\* a message of 242 characters whose negation clauses are short
LongShortClause ==
    Times("From now on the answers should be kept short. ", 4)
        \o "Do not go. I prefer short answers in every project anyway."

\* a message of 230 characters without negation
LongPlain == Times("From now on the answers should be kept short. ", 5)

ProbeTexts == <<
    "please don't guess the version",
    "Don't guess the version of the package",
    "No, use |> not %>% for pipes in R",
    "Please add type hints always from now on",
    "always use tabs now",
    "should I always use tabs for indentation?",
    "No, use the other function for this one",
    "  never commit directly to the main branch  ",
    "Always use uv for python projects",
    "I prefer tabs over spaces in every file",
    "No, always use pytest for the tests from now on",
    "Can you actually put the tests first by default in python",
    "Can you actually put the tests first by default",
    "In .py files, always add type hints",
    "For .R files, always use the native pipe",
    "Remember to run the tests before each commit",
    "You should never push without asking me",
    "Use tabs, not spaces, going forward",
    "Wrong, never use print for logging",
    "Avoid using global state in all modules",
    "Great, but always use tabs for indentation from now on",
    LongNegation,
    LongShortClause,
    LongPlain
>>

\* a user message that is positive feedback
Thanks == "thanks"

\* where the message stands in its conversation
\* the records of the transcript of the conversation
ProbeTranscript(text, context) ==
    (IF context = "alone" THEN <<>>
     ELSE <<Raw("a1", "assistant", "I ran the linter after the commit.",
                "2025-01-01T10:00:00Z")>>)
    \o (IF context = "after user" THEN <<Raw("u0", "user", Thanks, "2025-01-01T10:01:00Z")>>
        ELSE <<>>)
    \o <<Raw("p1", "user", text, "2025-01-01T10:02:00Z")>>

\* the values of the functions of corrections.py on one text, each function on its own
ProbeFacts(content) ==
    TextFacts(content) @@
    [is_task_request |-> is_task_request(Strip(content)),
     is_behavioral_preference |-> is_behavioral_preference(Strip(content)),
     has_negation |-> AnyMatch(negation_patterns, Strip(content)),
     \* match.group(0) of each negation pattern followed by [^.!?]*, if it matches
     negation_clauses |->
         [j \in 1..Len(negation_clause_patterns) |->
             IF Matches(negation_clause_patterns[j], Strip(content))
             THEN <<Group0(Strip(content),
                           Search(negation_clause_patterns[j], Strip(content)))>>
             ELSE <<>>],
     \* the preference patterns that match, by their place in the table
     hits |-> {j \in 1..Len(PREFERENCE_PATTERNS) : Matches(PREFERENCE_PATTERNS[j].p, content)},
     extract_correction_rule |-> extract_correction_rule(content),
     extract_file_reference |-> extract_file_reference(content)]

ScanInit ==
    /\ \E k \in 1..Len(ProbeTexts) :
          /\ text_facts = [t \in {ProbeTexts[k], Thanks} |-> ProbeFacts(t)]
          /\ \E context \in {"alone", "after assistant", "after user"} :
                files = [c \in ConversationIds |->
                            IF c = "c1" THEN ProbeTranscript(ProbeTexts[k], context) ELSE <<>>]
    /\ rule_facts = [r \in {text_facts[t].scan_user_message.extracted_rule :
                               t \in DOMAIN text_facts} \ {None} |-> RuleFacts(r)]
    /\ conversations = {[id |-> "c1", project_path |-> ProjectPath.c1]}
    /\ messages = save_conversation({}, "c1")
    /\ corrections = {}
    /\ preferences = {}
    /\ pc = "detect"
    /\ pending = {"c1"}
    /\ todo = {}
    /\ runs = 0
    /\ last = NoFold
    /\ history = <<>>
    /\ review_queue = {}
    /\ learned_rules = {}
    /\ result = <<>>
    /\ llm = <<>>
    /\ note = <<>>

ScanNext ==
    \/ \E c \in ConversationIds : DetectConversation(c)
    \/ StartExtract
    \/ ProcessCorrection
    \/ FinishRun

ScanSpec == ScanInit /\ [][ScanNext]_vars

(***************************************************************************)
(* One Detection handed to the extraction step: the rule and the file      *)
(* reference of a DetectedCorrection are drawn, and                        *)
(* extract_preference_from_correction derives the key of its Preference.   *)
(***************************************************************************)
KeyTexts == {
    "Always use uv for python projects",
    "always use uv for python projects",
    "use uv for python projects",
    "Please always use uv for python projects",
    "Never commit directly to the main branch",
    "never run the LINTER before each commit",
    "Don't use emojis in commit messages",
    "Do not use emojis in commit messages",
    "please never push without asking me",
    "I prefer tabs over spaces in every file",
    "Always use uv",
    "always use uv",
    "Always keep the answers short and put the tests first in every project from now on",
    "From now on keep the ANSWERS short and always put the tests first by default" }

\* a DetectedCorrection with the rule and the file reference drawn
KeyDetection(rule, file_ext) ==
    [id |-> uuid4("correction", "p1"),
     message_id |-> "p1",
     target_msg_id |-> None,
     correction_type |-> "preference",
     user_message |-> rule,
     assistant_message |-> None,
     extracted_rule |-> rule,
     confidence |-> 65,
     conversation_id |-> "c1",
     project_path |-> ProjectPath.c1,
     timestamp |-> "2025-01-01T10:02:00Z",
     file_touched |-> file_ext]

KeyInit ==
    /\ runs = 0
    /\ \E rule \in KeyTexts, file_ext \in {None, ".py", ".R"} :
          /\ todo = {KeyDetection(rule, file_ext)}
          /\ rule_facts = [r \in {rule} |-> RuleFacts(r)]
    /\ text_facts = <<>>
    /\ files = [c \in ConversationIds |-> <<>>]
    /\ conversations = {}
    /\ messages = {}
    /\ corrections = {}
    /\ preferences = {}
    /\ pc = "extract"
    /\ pending = {}
    /\ last = NoFold
    /\ history = <<>>
    /\ review_queue = {}
    /\ learned_rules = {}
    /\ result = <<>>
    /\ llm = <<>>
    /\ note = <<>>

KeyNext ==
    \/ ProcessCorrection
    \/ FinishRun

KeySpec == KeyInit /\ [][KeyNext]_vars

(***************************************************************************)
(* Step 4 over many corrections of one rule: get_unprocessed_corrections   *)
(* has returned MaxFolds rows whose rules give one key.  The row of the    *)
(* latest message has the highest confidence, 0.65, and is folded first;    *)
(* the others have the confidences 0.6, 0.55 and 0.5, and ORDER BY          *)
(* confidence DESC leaves the order of rows of one confidence open.         *)
(***************************************************************************)
\* how many corrections are folded into the Preference
MaxFolds == 12

FoldInit ==
    /\ runs = 0
    /\ todo = LET ids == <<"f01", "f02", "f03", "f04", "f05", "f06", "f07", "f08", "f09", "f10",
                           "f11", "f12", "f13">>
              IN  {[KeyDetection("run the linter before each commit", None)
                       EXCEPT !.id = uuid4("correction", ids[k]),
                              !.message_id = ids[k],
                              !.confidence = 65 - 5 * ((k + 2) \div 4),
                              !.timestamp = IF k = 1 THEN "2025-01-09T10:00:00Z"
                                            ELSE IF k = 2 THEN "2025-01-01T10:00:00Z"
                                            ELSE "2025-01-05T10:00:00Z"] : k \in 1..MaxFolds}
    /\ rule_facts = [r \in {"run the linter before each commit"} |-> RuleFacts(r)]
    /\ text_facts = <<>>
    /\ files = [c \in ConversationIds |-> <<>>]
    /\ conversations = {}
    /\ messages = {}
    /\ corrections = {}
    /\ preferences = {}
    /\ pc = "extract"
    /\ pending = {}
    /\ last = NoFold
    /\ history = <<>>
    /\ review_queue = {}
    /\ learned_rules = {}
    /\ result = <<>>
    /\ llm = <<>>
    /\ note = <<>>

FoldSpec == FoldInit /\ [][KeyNext]_vars

(***************************************************************************)
(* The pipeline with step 5, over one conversation that holds one user     *)
(* message: process_review_files applies the decisions parsed from the     *)
(* review notes.  The pipeline runs once a day                             *)
(* (batch_schedule, config.py:47), so the date in the id of a learned rule *)
(* is told by the number of the run.                                       *)
(***************************************************************************)
\* apply_decision(db, decision): the INSERT into learned_rules of an approval, which
\* raises on an id that exists and leaves the tables as they are, then the UPDATE of the
\* status of every row of review_queue with this proposed_rule
apply_decision(decision) ==
    LET approves == decision.decision \in {"approve", "approve_edited"}
        rule_text == IF decision.decision = "approve_edited" /\ decision.edited_rule # None
                     THEN decision.edited_rule ELSE decision.proposed_rule
        learned == [id |-> <<"rule", decision.rule_index, runs>>,
                    rule_text |-> rule_text,
                    source |-> IF decision.decision = "approve" THEN "review"
                               ELSE "review_edited",
                    active |-> 1]
        status == CASE approves -> "approved"
                    [] decision.decision = "reject" -> "rejected"
                    [] OTHER -> "needs_evidence"
    IN  IF approves /\ \E row \in learned_rules : row.id = learned.id
        THEN UNCHANGED <<learned_rules, review_queue>>
        ELSE /\ learned_rules' = IF approves THEN learned_rules \cup {learned}
                                 ELSE learned_rules
             /\ review_queue' = {IF row.proposed_rule = decision.proposed_rule
                                 THEN [row EXCEPT !.status = status] ELSE row :
                                    row \in review_queue}

\* run_pipeline step 5, after step 4: one decision of a review note about a rule that is
\* pending in the queue is applied
ProcessReview ==
    /\ pc = "extract"
    /\ todo = {}
    /\ \E row \in {row \in review_queue : row.status = "pending"},
          kind \in {"approve", "approve_edited", "reject", "need_more"},
          rule_index \in {1, 2} :
            apply_decision([rule_index |-> rule_index,
                            proposed_rule |-> row.proposed_rule,
                            decision |-> kind,
                            edited_rule |-> IF kind = "approve_edited"
                                            THEN "run the linter" ELSE None,
                            reject_reason |-> IF kind = "reject" THEN "no" ELSE None])
    /\ UNCHANGED <<files, conversations, messages, corrections, preferences, pc, pending, todo,
                   runs, text_facts, rule_facts, last, history, result, llm, note>>

ReviewNext ==
    \/ Ingest
    \/ \E c \in ConversationIds : DetectConversation(c)
    \/ StartExtract
    \/ ProcessCorrection
    \/ ProcessReview
    \/ FinishRun

ReviewSpec == ScanInit /\ [][ReviewNext]_vars

(***************************************************************************)
(* run_pipeline as a sequence of seven steps, each in a try of its own     *)
(* (pipeline.py:69-173).  A step either returns its count, which the       *)
(* result keeps, or raises an Exception, which is appended to errors.      *)
(***************************************************************************)
PipelineSteps == <<
    [name |-> "conversations_new", error |-> "Ingest error"],
    [name |-> "projects_classified", error |-> "Classification error"],
    [name |-> "corrections_detected", error |-> "Correction detection error"],
    [name |-> "preferences_extracted", error |-> "Preference extraction error"],
    [name |-> "reviews_processed", error |-> "Review processing error"],
    [name |-> "obsidian_files", error |-> "Obsidian generation error"],
    [name |-> "claude_md_updated", error |-> "CLAUDE.md update error"] >>

\* a faulty variant of run_step: an exception ends the run, the result is returned at once
run_step_aborting(res, outcome) ==
    LET step == PipelineSteps[Len(res.attempted) + 1]
    IN  IF outcome.raised
        THEN [res EXCEPT !.attempted = Append(@, [step |-> step.name, outcome |-> outcome]),
                         !.errors = Append(@, step.error),
                         !.returned = TRUE]
        ELSE [res EXCEPT !.attempted = Append(@, [step |-> step.name, outcome |-> outcome]),
                         !.counters[step.name] = outcome.count,
                         !.returned = Len(res.attempted) + 1 = Len(PipelineSteps)]

\* the next try block of run_pipeline: the step returns its count or raises; after
\* the seventh the PipelineResult is returned
run_step(res, outcome) ==
    LET step == PipelineSteps[Len(res.attempted) + 1]
    IN  IF outcome.raised
        THEN [res EXCEPT !.attempted = Append(@, [step |-> step.name, outcome |-> outcome]),
                         !.errors = Append(@, step.error),
                         !.returned = Len(res.attempted) + 1 = Len(PipelineSteps)]
        ELSE [res EXCEPT !.attempted = Append(@, [step |-> step.name, outcome |-> outcome]),
                         !.counters[step.name] = outcome.count,
                         !.returned = Len(res.attempted) + 1 = Len(PipelineSteps)]

\* run_pipeline has set errors to [] and every counter to 0
StepInit ==
    /\ result = [attempted |-> <<>>,
                 errors |-> <<>>,
                 counters |-> [k \in {PipelineSteps[i].name : i \in 1..Len(PipelineSteps)} |-> 0],
                 returned |-> FALSE]
    /\ text_facts = <<>>
    /\ rule_facts = <<>>
    /\ files = [c \in ConversationIds |-> <<>>]
    /\ conversations = {}
    /\ messages = {}
    /\ corrections = {}
    /\ preferences = {}
    /\ pc = "run"
    /\ pending = {}
    /\ todo = {}
    /\ runs = 0
    /\ last = NoFold
    /\ history = <<>>
    /\ review_queue = {}
    /\ learned_rules = {}
    /\ llm = <<>>
    /\ note = <<>>

AttemptStep ==
    /\ ~result.returned
    /\ \E outcome \in {[raised |-> TRUE, count |-> 0], [raised |-> FALSE, count |-> 1],
                       [raised |-> FALSE, count |-> 2]} :
          result' = run_step(result, outcome)
    /\ UNCHANGED <<files, conversations, messages, corrections, preferences, pc, pending, todo,
                   runs, text_facts, rule_facts, last, history, review_queue, learned_rules,
                   llm, note>>

StepSpec == StepInit /\ [][AttemptStep]_vars

(***************************************************************************)
(* The language-model path: extract_preferences_batch sends the messages   *)
(* in batches, each call either answers with one line per message or       *)
(* raises; save_extracted_preferences queues what was extracted.           *)
(***************************************************************************)
\* a faulty variant of extract_batch_turn: a failed call ends the loop
extract_batch_turn_aborting(st, raised, response) ==
    LET batch == Head(st.batches)
        rows == [k \in 1..Len(response) |->
                    [message_id |-> IF k <= Len(batch) THEN batch[k][1] ELSE "unknown",
                     preference_type |-> response[k].type,
                     preference_text |-> IF response[k].json /\ response[k].type # "none"
                                         THEN response[k].preference ELSE None,
                     confidence |-> IF response[k].has_confidence
                                    THEN response[k].confidence ELSE 50]]
        call == [batch |-> batch, raised |-> raised, response |-> response]
    IN  IF raised
        THEN [st EXCEPT !.batches = <<>>, !.calls = Append(@, call)]
        ELSE [st EXCEPT !.batches = Tail(@), !.calls = Append(@, call),
                        !.results = @ \o SelectSeq(rows, LAMBDA p : p.preference_text # None)]

\* one turn of the loop of extract_preferences_batch: the call for the first batch left
\* raises, or its response is read line by line; lines that are not JSON, of type none or
\* without a preference give nothing, a missing confidence is 0.5
extract_batch_turn(st, raised, response) ==
    LET batch == Head(st.batches)
        rows == [k \in 1..Len(response) |->
                    [message_id |-> IF k <= Len(batch) THEN batch[k][1] ELSE "unknown",
                     preference_type |-> response[k].type,
                     preference_text |-> IF response[k].json /\ response[k].type # "none"
                                         THEN response[k].preference ELSE None,
                     confidence |-> IF response[k].has_confidence
                                    THEN response[k].confidence ELSE 50]]
        call == [batch |-> batch, raised |-> raised, response |-> response]
    IN  IF raised
        THEN [st EXCEPT !.batches = Tail(@), !.calls = Append(@, call)]
        ELSE [st EXCEPT !.batches = Tail(@), !.calls = Append(@, call),
                        !.results = @ \o SelectSeq(rows, LAMBDA p : p.preference_text # None)]

\* three messages to analyse, in batches of one or of two
LlmInit ==
    /\ \E batch_size \in {1, 2} :
          LET msgs == << <<"m1", "use tabs in makefiles">>, <<"m2", "ok thanks">>,
                         <<"m3", "never push to main">> >>
              starts == {i \in 1..Len(msgs) : (i - 1) % batch_size = 0}
          IN  llm = [messages |-> msgs,
                     batch_size |-> batch_size,
                     batches |-> [k \in 1..Cardinality(starts) |->
                                     SubSeq(msgs, (k - 1) * batch_size + 1,
                                            IF k * batch_size < Len(msgs)
                                            THEN k * batch_size ELSE Len(msgs))],
                     calls |-> <<>>,
                     results |-> <<>>,
                     saved |-> FALSE]
    /\ text_facts = <<>>
    /\ rule_facts = <<>>
    /\ files = [c \in ConversationIds |-> <<>>]
    /\ conversations = {}
    /\ messages = {}
    /\ corrections = {}
    /\ preferences = {}
    /\ pc = "llm"
    /\ pending = {}
    /\ todo = {}
    /\ runs = 0
    /\ last = NoFold
    /\ history = <<>>
    /\ review_queue = {}
    /\ learned_rules = {}
    /\ result = <<>>
    /\ note = <<>>

SendBatch ==
    /\ llm.batches # <<>>
    /\ \/ llm' = extract_batch_turn(llm, TRUE, <<>>)
       \/ \E response \in [1..Len(Head(llm.batches)) ->
                             {[json |-> FALSE, type |-> "", preference |-> None,
                               has_confidence |-> FALSE, confidence |-> 0],
                              [json |-> TRUE, type |-> "none", preference |-> None,
                               has_confidence |-> FALSE, confidence |-> 0],
                              [json |-> TRUE, type |-> "rule", preference |-> "Use tabs in Makefiles",
                               has_confidence |-> TRUE, confidence |-> 95],
                              [json |-> TRUE, type |-> "rule", preference |-> "Never push to main",
                               has_confidence |-> FALSE, confidence |-> 0]}] :
             llm' = extract_batch_turn(llm, FALSE, response)
    /\ UNCHANGED <<files, conversations, messages, corrections, preferences, pc, pending, todo,
                   runs, text_facts, rule_facts, last, history, review_queue, learned_rules,
                   result, note>>

\* save_extracted_preferences on what extract_preferences_batch returned
SaveExtracted ==
    /\ llm.batches = <<>>
    /\ llm.results # <<>>
    /\ ~llm.saved
    /\ review_queue' = review_queue \cup
          {[id |-> uuid4("review", k),
            rule_type |-> llm.results[k].preference_type,
            proposed_rule |-> llm.results[k].preference_text,
            file_types |-> <<>>,
            confidence |-> llm.results[k].confidence,
            status |-> "pending",
            evidence |-> <<[type |-> llm.results[k].preference_type]>>] :
              k \in {k \in 1..Len(llm.results) : llm.results[k].preference_text # None}}
    /\ llm' = [llm EXCEPT !.saved = TRUE]
    /\ UNCHANGED <<files, conversations, messages, corrections, preferences, pc, pending, todo,
                   runs, text_facts, rule_facts, last, history, learned_rules, result, note>>

LlmSpec == LlmInit /\ [][SendBatch \/ SaveExtracted]_vars

(***************************************************************************)
(* The review note: obsidian.py writes one section per review item, the    *)
(* user checks a box, review_processor.py reads the decisions back.        *)
(* re.DOTALL makes . any character, written NCls({}); the nodes            *)
(* <<"ahead", r>> and <<"eos">> are (?=r) and \Z.                          *)
(***************************************************************************)
generate_review_item_markdown(item, index) ==
    LET months == <<"Jan", "Feb", "Mar", "Apr", "May", "Jun", "Jul", "Aug", "Sep", "Oct",
                    "Nov", "Dec">>
        numbers == <<"01", "02", "03", "04", "05", "06", "07", "08", "09", "10", "11", "12">>
        date_str(timestamp) ==
            IF Len(timestamp) >= 10 /\ \E k \in 1..12 : numbers[k] = SubSeq(timestamp, 6, 7)
            THEN months[CHOOSE k \in 1..12 : numbers[k] = SubSeq(timestamp, 6, 7)]
                 \o " " \o SubSeq(timestamp, 9, 10)
            ELSE "unknown date"
        last_part(path) ==
            SubSeq(path, SetMax({0} \cup {i \in 1..Len(path) : Ch(path, i) = "/"}) + 1, Len(path))
        format_evidence_snippet(evidence) ==
            "#### " \o last_part(IF evidence.project_path # None THEN evidence.project_path
                                 ELSE "unknown")
            \o " - " \o date_str(evidence.timestamp) \o "\n> **You:** =="
            \o (IF Len(evidence.message) > 300 THEN Prefix(evidence.message, 300) \o "..."
                ELSE evidence.message)
            \o "==\n"
        file_types_str ==
            IF Len(item.file_types) = 0 THEN "all"
            ELSE Backtick \o item.file_types[1] \o Backtick
        evidence_md ==
            IF Len(item.evidence) = 0 THEN "" ELSE format_evidence_snippet(item.evidence[1])
    IN  "## Rule " \o ToString(index) \o ": " \o Prefix(item.proposed_rule, 50)
        \o (IF Len(item.proposed_rule) > 50 THEN "..." ELSE "")
        \o "\n\n**Confidence:** " \o ToString(item.confidence) \o "%"
        \o " | **File types:** " \o file_types_str
        \o " | **Scope:** " \o (IF item.project_scope # None THEN item.project_scope ELSE "Global")
        \o "\n\n> " \o item.proposed_rule
        \o "\n\n### Evidence (" \o ToString(Len(item.evidence)) \o " occurrences)\n\n"
        \o evidence_md
        \o "\n\n### Decision\n\n- [ ] Approve as written\n- [ ] Approve with edits: "
        \o Backtick \o "___" \o Backtick
        \o "\n- [ ] Reject (reason: ___)\n- [ ] Need more evidence\n\n---\n\n"

RECURSIVE parse_review_file(_)

\* the decisions of the rule sections of content, section by section as re.finditer
\* yields them
parse_review_file(content) ==
    LET \* ## Rule (\d+):\s*(.+?)(?=\n##|\Z)
        rule_pattern ==
            Re(Cat(<<Lit("## Rule "), Grp(1, Plus(D)), Lit(":"), S0,
                     Grp(2, Lazy(NCls({}), 1, Inf)),
                     <<"ahead", Alt(<<Lit("\n##"), <<"eos">> >>)>> >>), 2, FALSE)
        \* >\s*(.+?)(?:\n\n|\n###)
        quote_pattern ==
            Re(Cat(<<Lit(">"), S0, Grp(1, Lazy(NCls({}), 1, Inf)),
                     Alt(<<Lit("\n\n"), Lit("\n###")>>)>>), 1, FALSE)
        \* \[x\]\s*Approve\s+as\s+written
        approve_pattern ==
            Ci(Cat(<<Lit("[x]"), S0, Lit("Approve"), S1, Lit("as"), S1, Lit("written")>>))
        \* \[x\]\s*Approve\s+with\s+edits:\s*`([^`]+)`
        edit_pattern ==
            Re(Cat(<<Lit("[x]"), S0, Lit("Approve"), S1, Lit("with"), S1, Lit("edits:"), S0,
                     Lit(Backtick), Grp(1, Plus(NCls({Backtick}))), Lit(Backtick)>>), 1, TRUE)
        \* \[x\]\s*Reject\s*\(reason:\s*([^)]+)\)
        reject_pattern ==
            Re(Cat(<<Lit("[x]"), S0, Lit("Reject"), S0, Lit("(reason:"), S0,
                     Grp(1, Plus(NCls({")"}))), Lit(")")>>), 1, TRUE)
        \* \[x\]\s*Need\s+more\s+evidence
        need_pattern ==
            Ci(Cat(<<Lit("[x]"), S0, Lit("Need"), S1, Lit("more"), S1, Lit("evidence")>>))
        match == Search(rule_pattern, content)
    IN  IF Len(match) = 0 THEN <<>>
        ELSE
        LET digits == Groups(content, match)[1][1]
            section == Groups(content, match)[2][1]
            rule_match == Search(quote_pattern, section)
            edit_match == Search(edit_pattern, section)
            reject_match == Search(reject_pattern, section)
            decision ==
                IF Matches(need_pattern, section) THEN "need_more"
                ELSE IF Len(reject_match) > 0 THEN "reject"
                ELSE IF Len(edit_match) > 0 THEN "approve_edited"
                ELSE IF Matches(approve_pattern, section) THEN "approve"
                ELSE None
            found ==
                [rule_index |-> CHOOSE n \in 0..99 : ToString(n) = digits,
                 proposed_rule |-> IF Len(rule_match) > 0
                                   THEN Strip(Groups(section, rule_match)[1][1]) ELSE "",
                 decision |-> decision,
                 edited_rule |-> IF Len(edit_match) > 0
                                 THEN Strip(Groups(section, edit_match)[1][1]) ELSE None,
                 reject_reason |-> IF Len(reject_match) > 0
                                   THEN Strip(Groups(section, reject_match)[1][1]) ELSE None]
        IN  (IF decision # None THEN <<found>> ELSE <<>>)
            \o parse_review_file(SubSeq(content, match[2] + 1, Len(content)))

\* a note of one or two review items has been written; no box is checked yet
NoteInit ==
    /\ \E rule \in {"run the linter before each commit",
                    "Don't guess the version of the package, read it from the lock file"},
          file_types \in {<<>>, <<".py">>},
          evidence \in {<<>>, <<[conversation_id |-> "c1", project_path |-> "/home/b/app",
                                 timestamp |-> "2025-01-01T10:01:00Z",
                                 message |-> "Always run the linter before each commit",
                                 type |-> "workflow"]>>},
          count \in 1..2 :
          LET items == SubSeq(<<[proposed_rule |-> rule, file_types |-> file_types,
                                 project_scope |-> None, confidence |-> 65,
                                 evidence |-> evidence],
                                [proposed_rule |-> "use tabs in makefiles", file_types |-> <<>>,
                                 project_scope |-> None, confidence |-> 60,
                                 evidence |-> <<>>]>>, 1, count)
          IN  note = [items |-> items,
                      sections |-> [k \in 1..count |-> generate_review_item_markdown(items[k], k)],
                      checked |-> 0,
                      box |-> None,
                      parsed |-> FALSE,
                      decisions |-> <<>>]
    /\ text_facts = <<>>
    /\ rule_facts = <<>>
    /\ files = [c \in ConversationIds |-> <<>>]
    /\ conversations = {}
    /\ messages = {}
    /\ corrections = {}
    /\ preferences = {}
    /\ pc = "review"
    /\ pending = {}
    /\ todo = {}
    /\ runs = 0
    /\ last = NoFold
    /\ history = <<>>
    /\ review_queue = {}
    /\ learned_rules = {}
    /\ result = <<>>
    /\ llm = <<>>

\* the user checks one box of one section, filling in the blank the box has
CheckBox ==
    /\ note.checked = 0
    /\ ~note.parsed
    /\ \E k \in 1..Len(note.sections),
          box \in {[kind |-> "approve", blank |-> "- [ ] Approve as written",
                    filled |-> "- [x] Approve as written"],
                   [kind |-> "approve_edited",
                    blank |-> "- [ ] Approve with edits: " \o Backtick \o "___" \o Backtick,
                    filled |-> "- [x] Approve with edits: " \o Backtick \o "run the linter"
                               \o Backtick],
                   [kind |-> "reject", blank |-> "- [ ] Reject (reason: ___)",
                    filled |-> "- [x] Reject (reason: too vague)"],
                   [kind |-> "need_more", blank |-> "- [ ] Need more evidence",
                    filled |-> "- [x] Need more evidence"]} :
          LET text == note.sections[k]
              at == CHOOSE i \in 1..Len(text) : SubSeq(text, i, i + Len(box.blank) - 1) = box.blank
          IN  note' = [note EXCEPT !.sections[k] = SubSeq(text, 1, at - 1) \o box.filled
                                                   \o SubSeq(text, at + Len(box.blank), Len(text)),
                                   !.checked = k,
                                   !.box = box.kind]
    /\ UNCHANGED <<files, conversations, messages, corrections, preferences, pc, pending, todo,
                   runs, text_facts, rule_facts, last, history, review_queue, learned_rules,
                   result, llm>>

\* process_review_files reads the note
ParseNote ==
    /\ ~note.parsed
    /\ note' = [note EXCEPT !.parsed = TRUE,
                            !.decisions = parse_review_file(
                                IF Len(note.sections) = 1 THEN note.sections[1]
                                ELSE note.sections[1] \o note.sections[2])]
    /\ UNCHANGED <<files, conversations, messages, corrections, preferences, pc, pending, todo,
                   runs, text_facts, rule_facts, last, history, review_queue, learned_rules,
                   result, llm>>

NoteSpec == NoteInit /\ [][CheckBox \/ ParseNote]_vars

(***************************************************************************)
(* The pipeline with a scan that may raise.  Step 3 of run_pipeline holds  *)
(* its whole loop over detect_all_corrections in one try                   *)
(* (pipeline.py:98-126): an exception raised inside                        *)
(* detect_corrections_in_conversation, for instance by a query of          *)
(* corrections.py:323-341, leaves the generator and the loop, is appended  *)
(* to errors, and step 4 follows.                                          *)
(***************************************************************************)
\* the scan of conversation c raises before it returns its Detections
DetectRaises(c) ==
    /\ pc = "detect"
    /\ c \in pending
    /\ pending' = {}
    /\ UNCHANGED <<files, conversations, messages, corrections, preferences, pc, todo, runs,
                   text_facts, rule_facts, last, history,
                   review_queue, learned_rules, result, llm, note>>

FaultNext ==
    \/ \E c \in ConversationIds : Write(c)
    \/ Ingest
    \/ \E c \in ConversationIds : DetectConversation(c)
    \/ \E c \in ConversationIds : DetectRaises(c)
    \/ StartExtract
    \/ ProcessCorrection
    \/ FinishRun

FaultSpec == Init /\ [][FaultNext]_vars

(***************************************************************************)
(* Properties.  Confidences are in hundredths: 0.65 is 65 and 1.0 is 100.  *)
(***************************************************************************)

\* C1: every Detection has 0 < confidence <= 0.65 (the stored ones, and the confidence of
\* every pattern with and without an assistant turn and a file reference), every
\* Preference built from one Detection (occurrence_count = 1) has confidence <= 0.65, and
\* a confidence above 0.65 is found only on a Preference with occurrence_count >= 2.
C1_SingleObservationCap ==
    /\ \A c \in corrections : 0 < c.confidence /\ c.confidence <= 65
    /\ \A weight \in {PREFERENCE_PATTERNS[j].conf : j \in 1..Len(PREFERENCE_PATTERNS)},
          prev \in {<<>>, <<"a1">>}, file \in {None, ".py"} :
          LET confidence == adjust_confidence(weight, prev, file)
          IN  0 < confidence /\ confidence <= 65
    /\ last.new # <<>> => last.new[1].occurrence_count = 1 /\ last.new[1].confidence <= 65
    /\ \A p \in preferences : p.occurrence_count = 1 => p.confidence <= 65
    /\ \A p \in preferences : p.confidence > 65 => p.occurrence_count >= 2

\* a Detection whose pattern weighs more than 0.65 was cut to 0.65 and its Preference,
\* seen once, is stored at 0.65
C1_Witness ==
    /\ \E c \in corrections, m \in messages :
          /\ m.id = c.message_id
          /\ text_facts[m.content].scan_user_message.base_confidence > 65
          /\ c.confidence = 65
    /\ \E p \in preferences : p.occurrence_count = 1 /\ p.confidence = 65

\* C2: merge_preferences(existing, new) returns the confidence
\* min(1.0, max(existing.confidence, new.confidence)
\*          + min(0.1 * (existing.occurrence_count + 1), 0.4)).
C2_MergeConfidence ==
    (last.existing # <<>> /\ last.saved # <<>>) =>
        last.saved[1].confidence =
            Min(100, Max(last.existing[1].confidence, last.new[1].confidence)
                     + Min(10 * (last.existing[1].occurrence_count + 1), 40))

\* a merge into a record seen four times or more, whose boost is the capped 0.4 and
\* whose result stays below 1.0, with the new confidence the larger one
C2_Witness ==
    /\ last.existing # <<>>
    /\ last.saved # <<>>
    /\ last.existing[1].occurrence_count >= 4
    /\ last.new[1].confidence > last.existing[1].confidence
    /\ last.saved[1].confidence = last.new[1].confidence + 40
    /\ last.saved[1].confidence < 100

\* C3: after any number of Detections sharing one key have been folded into one
\* Preference, its confidence is at most the largest confidence of a single folded
\* Detection plus 0.4, clamped to 1.0.
C3_RepetitionBoostCap ==
    \A p \in preferences :
        Pair(p) \in DOMAIN history => p.confidence <= Min(history[Pair(p)].top + 40, 100)

\* C4: merge_preferences(existing, new).confidence >= existing.confidence, and the
\* result stays within [0, 1].
C4_MergeMonotone ==
    (last.existing # <<>> /\ last.saved # <<>>) =>
        /\ last.saved[1].confidence >= last.existing[1].confidence
        /\ 0 <= last.saved[1].confidence
        /\ last.saved[1].confidence <= 100

\* a merge of a lower confidence into a record that has seen repetitions and sits below
\* 1.0, and whose result is above the record
C4_Witness ==
    /\ last.existing # <<>>
    /\ last.saved # <<>>
    /\ last.existing[1].occurrence_count >= 2
    /\ last.new[1].confidence < last.existing[1].confidence
    /\ last.existing[1].confidence < last.saved[1].confidence
    /\ last.saved[1].confidence < 100

\* C5: occurrence_count is the number of Detections folded into the Preference: 1 at
\* creation, one more for each merge, in the record merge_preferences returns and in the
\* row save_preference stores.
C5_CountIsFolds ==
    /\ \A p \in preferences :
          Pair(p) \in DOMAIN history /\ p.occurrence_count = history[Pair(p)].folded
    /\ last.saved # <<>> =>
          /\ last.saved[1].occurrence_count =
                IF last.existing = <<>> THEN 1 ELSE last.existing[1].occurrence_count + 1
          /\ \E p \in preferences :
                /\ Pair(p) = Pair(last.saved[1])
                /\ p.occurrence_count = last.saved[1].occurrence_count

\* three Detections with one key: the merge returned 3 and the row holds 3
C5_Witness ==
    /\ last.saved # <<>>
    /\ last.saved[1].occurrence_count = 3
    /\ \E p \in preferences : Pair(p) = Pair(last.saved[1]) /\ p.occurrence_count = 3

\* C6: merge_preferences returns at most 10 evidence entries: the existing evidence
\* followed by the new entry, of which the last 10 are kept in the order of insertion.
C6_EvidenceBound ==
    (last.existing # <<>> /\ last.saved # <<>>) =>
        LET inserted == last.existing[1].evidence \o last.new[1].evidence
            kept == last.saved[1].evidence
            dropped == Len(inserted) - Len(kept)
        IN  /\ Len(kept) = Min(Len(inserted), EvidenceLimit)
            /\ \A i \in 1..Len(kept) : kept[i] = inserted[i + dropped]

\* a merge into a record holding 10 entries: the entry inserted first is dropped although
\* an entry that is kept bears an older timestamp
C6_Witness ==
    /\ last.existing # <<>>
    /\ last.saved # <<>>
    /\ Len(last.existing[1].evidence) = EvidenceLimit
    /\ Len(last.saved[1].evidence) = EvidenceLimit
    /\ last.saved[1].evidence[EvidenceLimit] = last.new[1].evidence[1]
    /\ last.existing[1].evidence[1].timestamp # ""
    /\ \E i \in 1..EvidenceLimit :
          /\ last.saved[1].evidence[i].timestamp # ""
          /\ StrLess(last.saved[1].evidence[i].timestamp,
                     last.existing[1].evidence[1].timestamp)

\* C7: the preference_value of a Preference, with its id, preference_key and category, stays
\* the one its first Detection wrote, whatever later Detections say, in the record
\* merge_preferences returns and in the stored row.
C7_ValueFrozen ==
    /\ \A p \in preferences :
          /\ Pair(p) \in DOMAIN history
          /\ p.preference_value = history[Pair(p)].created.preference_value
          /\ p.id = history[Pair(p)].created.id
          /\ p.preference_key = history[Pair(p)].created.preference_key
          /\ p.category = history[Pair(p)].created.category
    /\ last.saved # <<>> =>
          /\ last.saved[1].preference_value
                = history[Pair(last.new[1])].created.preference_value
          /\ last.saved[1].id = history[Pair(last.new[1])].created.id
          /\ last.saved[1].preference_key = history[Pair(last.new[1])].created.preference_key
          /\ last.saved[1].category = history[Pair(last.new[1])].created.category

\* a Detection of another wording was merged into a stored Preference
C7_Witness ==
    /\ last.existing # <<>>
    /\ last.saved # <<>>
    /\ last.new[1].preference_value # last.existing[1].preference_value
    /\ \E p \in preferences :
          /\ Pair(p) = Pair(last.new[1])
          /\ p.occurrence_count >= 2
          /\ p.evidence[Len(p.evidence)].message = last.new[1].evidence[1].message

\* C8: no two stored Preferences share (file_extension, preference_key) and none is ever
\* removed; a Detection whose pair is absent creates a row with occurrence_count = 1, one
\* whose pair is present updates that row and creates or replaces none.
C8_PairIdentity ==
    [][/\ \A p, q \in preferences' : Pair(p) = Pair(q) => p = q
       /\ \A p \in preferences : \E q \in preferences' : q.id = p.id /\ Pair(q) = Pair(p)
       /\ (pc = "extract" /\ last' # last) =>
             IF \E p \in preferences : Pair(p) = Pair(last'.new[1])
             THEN /\ Cardinality(preferences') = Cardinality(preferences)
                  /\ \E p \in preferences, q \in preferences' :
                        /\ Pair(p) = Pair(last'.new[1])
                        /\ Pair(q) = Pair(p)
                        /\ q.id = p.id
                        /\ q.occurrence_count = p.occurrence_count + 1
                  /\ \A p \in preferences :
                        Pair(p) # Pair(last'.new[1]) => p \in preferences'
             ELSE /\ preferences' = preferences \cup {last'.new[1]}
                  /\ last'.new[1].occurrence_count = 1]_vars

\* two Preferences are stored and the last Detection went into a pair that was present
C8_Witness ==
    /\ Cardinality(preferences) >= 2
    /\ last.existing # <<>>
    /\ \E p \in preferences : Pair(p) = Pair(last.new[1]) /\ p.occurrence_count >= 2

\* C9: a user message that matches a positive-feedback pattern is set aside before the
\* preference patterns are tried and no Detection is ever stored for it, whatever
\* preference pattern it matches.
C9_PositiveNeverDetected ==
    \A m \in messages :
        (m.role = "user" /\ text_facts[m.content].is_positive_feedback) =>
            /\ text_facts[m.content].scan_user_message.skip = "positive"
            /\ \A c \in corrections : c.message_id # m.id

\* the detection step has scanned a message that is positive feedback and that a
\* preference pattern matches
C9_Witness ==
    /\ pc = "extract"
    /\ \E m \in messages :
          /\ m.role = "user"
          /\ text_facts[m.content].is_positive_feedback
          /\ Matches(PREFERENCE_PATTERNS[8].p, m.content)

\* C10: a user message longer than 1000 characters or with more than 10 newlines is noise
\* for is_noise_content, is set aside before the preference patterns are tried, and no
\* Detection is ever stored for it.
C10_LongIsNoise ==
    \A m \in messages :
        (/\ m.role = "user"
         /\ \/ text_facts[m.content].length > LongMessageLimit
            \/ text_facts[m.content].newlines > ManyNewlinesLimit) =>
            /\ text_facts[m.content].is_noise_content
            /\ text_facts[m.content].scan_user_message.skip \in {"positive", "noise"}
            /\ \A c \in corrections : c.message_id # m.id

\* the detection step has scanned a short message of more than 10 newlines that a
\* preference pattern matches, and a message of more than 1000 characters that begins
\* with "always"
C10_Witness ==
    /\ pc = "extract"
    /\ \E m \in messages :
          /\ m.role = "user"
          /\ text_facts[m.content].newlines > ManyNewlinesLimit
          /\ text_facts[m.content].length <= LongMessageLimit
          /\ Matches(PREFERENCE_PATTERNS[12].p, m.content)
    /\ \E m \in messages :
          /\ m.role = "user"
          /\ text_facts[m.content].length > LongMessageLimit
          /\ text_facts[m.content].newlines <= ManyNewlinesLimit
          /\ StartsWith(m.content, "always")

\* C11: extract_correction_rule returns no rule for a text that is a task request or that
\* fails the behavioral-preference test (fewer than 20 characters, a final question mark, or
\* no generalization marker), whatever preference pattern the text matches; the message
\* yields no Detection and no correction row is stored for it.
C11_GatesRejectRule ==
    \A m \in messages :
        m.role = "user" =>
            /\ (Len(Strip(m.content)) < 20 \/ EndsWith(Strip(m.content), "?")) =>
                  ~text_facts[m.content].is_behavioral_preference
            /\ (\/ text_facts[m.content].is_task_request
                \/ ~text_facts[m.content].is_behavioral_preference) =>
                  /\ text_facts[m.content].extract_correction_rule = None
                  /\ \A c \in corrections : c.message_id # m.id

\* the detection step has scanned a task request that is neither positive feedback nor
\* noise, that carries a generalization marker and that a preference pattern matches
C11_Witness ==
    /\ pc = "extract"
    /\ \E m \in messages :
          /\ m.role = "user"
          /\ text_facts[m.content].is_task_request
          /\ text_facts[m.content].is_behavioral_preference
          /\ text_facts[m.content].hits # {}
          /\ ~text_facts[m.content].is_positive_feedback
          /\ ~text_facts[m.content].is_noise_content

\* C12: negation preservation: extract_correction_rule applied to "please don't guess the
\* version" returns a text that contains "don't guess", and never the lone word "guess".
C12_NegationPreserved ==
    \A m \in messages :
        m.content = "please don't guess the version" =>
            /\ text_facts[m.content].extract_correction_rule # "guess"
            /\ \E i \in 1..Len(text_facts[m.content].extract_correction_rule) :
                  SubSeq(text_facts[m.content].extract_correction_rule,
                         i, i + Len("don't guess") - 1) = "don't guess"

C14_FirstPatternWins ==
    \A m \in messages :
        m.role = "user" =>
            /\ Cardinality({c \in corrections : c.message_id = m.id}) <= 1
            /\ \A c \in corrections :
                  c.message_id = m.id =>
                      /\ text_facts[m.content].hits # {}
                      /\ c.correction_type =
                            PREFERENCE_PATTERNS[SetMin(text_facts[m.content].hits)].type
                      /\ text_facts[m.content].scan_user_message.correction_type
                            = c.correction_type
                      /\ text_facts[m.content].scan_user_message.base_confidence =
                            PREFERENCE_PATTERNS[SetMin(text_facts[m.content].hits)].conf

\* a Detection is stored for a message that three patterns or more match, the first and
\* the last of them differing in category and in base confidence
C14_Witness ==
    \E m \in messages, c \in corrections :
        /\ c.message_id = m.id
        /\ Cardinality(text_facts[m.content].hits) >= 3
        /\ PREFERENCE_PATTERNS[SetMin(text_facts[m.content].hits)].type
              # PREFERENCE_PATTERNS[SetMax(text_facts[m.content].hits)].type
        /\ PREFERENCE_PATTERNS[SetMin(text_facts[m.content].hits)].conf
              # PREFERENCE_PATTERNS[SetMax(text_facts[m.content].hits)].conf

\* C15: the confidence of a Detection is the base confidence of the pattern matched, plus
\* 0.05 if the Detection has a preceding assistant turn as its context (the message just
\* before is an assistant turn), plus 0.05 if a file reference is found in the text, the
\* sum capped at 0.65.
C15_DetectionConfidence ==
    \A m \in messages, c \in corrections :
        c.message_id = m.id =>
            LET base == PREFERENCE_PATTERNS[SetMin(text_facts[m.content].hits)].conf
                before == {x \in messages : StrLess(x.timestamp, m.timestamp)}
                turn == \E a \in before :
                            /\ a.role = "assistant"
                            /\ \A x \in before : ~StrLess(a.timestamp, x.timestamp)
                file == text_facts[m.content].extract_file_reference # None
            IN  /\ (c.target_msg_id # None) <=> turn
                /\ c.confidence = Min(65, base + (IF c.target_msg_id # None THEN 5 ELSE 0)
                                               + (IF file THEN 5 ELSE 0))

\* a Detection of base confidence 0.5 with both additions, stored at 0.6
C15_Witness ==
    \E m \in messages, c \in corrections :
        /\ c.message_id = m.id
        /\ PREFERENCE_PATTERNS[SetMin(text_facts[m.content].hits)].conf = 50
        /\ c.target_msg_id # None
        /\ text_facts[m.content].extract_file_reference # None
        /\ c.confidence = 60

\* C16: end-to-end scenario 1: once the conversation holding the user message
\* "No, use |> not %>% for pipes in R" has been scanned, the message has exactly one
\* Detection, of type correction, with a rule that contains "use |>", file_touched ".R" and
\* a confidence in (0, 0.65].
C16_ScenarioOne ==
    \A m \in messages :
        (m.content = "No, use |> not %>% for pipes in R" /\ m.conversation_id \notin pending) =>
            LET scan == text_facts[m.content].scan_user_message
                found == {c \in corrections : c.message_id = m.id}
            IN  /\ scan.skip = ""
                /\ scan.file_touched = ".R"
                /\ Cardinality(found) = 1
                /\ \A c \in found :
                      /\ c.correction_type = "correction"
                      /\ \E i \in 1..Len(c.extracted_rule) :
                            SubSeq(c.extracted_rule, i, i + Len("use |>") - 1) = "use |>"
                      /\ 0 < c.confidence
                      /\ c.confidence <= 65

\* C17: when the evidence of existing together with the evidence of new holds a non-empty
\* timestamp, merge_preferences(existing, new) has for first_seen the least and for
\* last_seen the greatest of these non-empty timestamps.
C17_SeenSpan ==
    last.saved # <<>> =>
        LET evidence == last.existing[1].evidence \o last.new[1].evidence
            stamped == {evidence[i].timestamp : i \in 1..Len(evidence)} \ {""}
            merged == last.saved[1]
        IN  stamped # {} =>
                /\ merged.first_seen \in stamped
                /\ merged.last_seen \in stamped
                /\ \A t \in stamped : /\ ~StrLess(t, merged.first_seen)
                                      /\ ~StrLess(merged.last_seen, t)

\* a merge whose evidence holds an entry without timestamp, an entry earlier than the
\* first_seen of the record and an entry later than the last_seen of the new Preference
C17_Witness ==
    /\ last.saved # <<>>
    /\ \E i \in 1..Len(last.existing[1].evidence) : last.existing[1].evidence[i].timestamp = ""
    /\ StrLess(last.saved[1].first_seen, last.existing[1].first_seen)
    /\ StrLess(last.new[1].last_seen, last.saved[1].last_seen)
    /\ last.new[1].last_seen # ""

\* C18: the preference key is prefix-insensitive: for the rule t and the file extension e of
\* a Preference and every filler prefix p, generate_preference_key(p + t, e) is the key of
\* the Preference, and the key (after "e:") does not begin with a filler prefix.
C18_PrefixInsensitive ==
    \A pref \in preferences :
        LET body == IF pref.file_extension # None
                    THEN Suffix(pref.preference_key, Len(pref.file_extension) + 1)
                    ELSE pref.preference_key
        IN  \A j \in 1..Len(KeyPrefixes) :
                /\ generate_preference_key(KeyPrefixes[j] \o pref.preference_value,
                                           pref.file_extension) = pref.preference_key
                /\ ~StartsWith(body, KeyPrefixes[j])

\* C19: key derivation is case-insensitive: the key of a Preference of rule t and file
\* extension e is generate_preference_key(lower-cased t, e); "Always use uv" and
\* "always use uv" both give the key "use uv" (after "e:").
C19_CaseInsensitive ==
    \A pref \in preferences :
        LET head == IF pref.file_extension # None THEN pref.file_extension \o ":" ELSE ""
        IN  /\ generate_preference_key(Lower(pref.preference_value), pref.file_extension)
                  = pref.preference_key
            /\ pref.preference_value \in {"Always use uv", "always use uv"} =>
                  pref.preference_key = head \o "use uv"

\* a Preference extracted from a rule with upper-case letters beyond the prefix, for a file
\* extension
C19_Witness ==
    \E pref \in preferences :
        /\ pref.preference_value = "never run the LINTER before each commit"
        /\ pref.file_extension = ".R"
        /\ pref.preference_key = ".R:run the linter before each commit"

\* C20: a failure while detecting corrections in one conversation does not block the
\* others: when step 3 of a run is over, the Detections of the run are saved for every
\* conversation but the one whose scan raised, so at most one conversation holds a user
\* message that yields a Detection and has no correction row of this run.
C20_FailureIsolated ==
    pc = "extract" =>
        Cardinality({conv.id : conv \in
            {conv \in conversations :
                \E m \in messages :
                    /\ m.conversation_id = conv.id
                    /\ m.role = "user"
                    /\ text_facts[m.content].scan_user_message.skip = ""
                    /\ \A row \in corrections : row.id # uuid4("correction", m.id)}}) <= 1

\* C25: after process_corrections_to_preferences has folded a Detection into a stored
\* Preference, the row that get_preference reads back equals the record that
\* merge_preferences returned, in every field.
C25_StoredIsMerged ==
    (last.existing # <<>> /\ last.saved # <<>>) =>
        get_preference(preferences, last.saved[1].file_extension, last.saved[1].preference_key)
            = last.saved

\* C24: a message with a missing timestamp is skipped: no correction row is stored for it
\* and no Preference holds evidence of it.
C24_MissingTimestampSkipped ==
    \A m \in messages :
        m.timestamp = "" =>
            /\ \A c \in corrections : c.message_id # m.id
            /\ \A p \in preferences :
                  \A i \in 1..Len(p.evidence) : p.evidence[i].message # m.content

\* C26: detection and aggregation are idempotent across runs: no message has more than
\* one correction row, and no user message is folded into a Preference more than once (no
\* Preference holds the same evidence entry twice, and its occurrence_count is at most
\* the number of user messages stored).
C26_RunsIdempotent ==
    /\ \A c, d \in corrections : c.message_id = d.message_id => c = d
    /\ \A p \in preferences :
          /\ \A i, j \in 1..Len(p.evidence) : p.evidence[i] = p.evidence[j] => i = j
          /\ p.occurrence_count <= Cardinality({m \in messages : m.role = "user"})

\* C27: over a sequence of merges into one Preference, first_seen never moves to a later
\* timestamp and last_seen never moves to an earlier one, in the record merge_preferences
\* returns and in the stored row, also after evidence has been dropped by the bound.
C27_SeenNeverShrinks ==
    [][/\ \A p \in preferences, q \in preferences' :
             Pair(p) = Pair(q) => /\ ~StrLess(p.first_seen, q.first_seen)
                                  /\ ~StrLess(q.last_seen, p.last_seen)
       /\ (last'.existing # <<>> /\ last'.saved # <<>>) =>
             /\ ~StrLess(last'.existing[1].first_seen, last'.saved[1].first_seen)
             /\ ~StrLess(last'.saved[1].last_seen, last'.existing[1].last_seen)]_vars

\* C28: a rule that begins with "never " or "don't " and a rule that begins with
\* "always " or with no filler prefix are never folded into one Preference: the rule of a
\* Detection merged into a stored Preference has the polarity of the stored rule.
C28_PolarityKeptApart ==
    (last.existing # <<>> /\ last.saved # <<>>) =>
        LET prohibits(rule) == \/ StartsWith(Lower(rule), "never ")
                               \/ StartsWith(Lower(rule), "don't ")
        IN  prohibits(last.existing[1].preference_value)
                <=> prohibits(last.new[1].preference_value)

\* C29: once a proposed rule has been approved or rejected through apply_decision, no
\* later step puts a row with the same rule text and the status pending into the review
\* queue.
C29_DecidedStaysDecided ==
    [][\A new \in review_queue' \ review_queue :
          new.status = "pending" =>
              \A row \in review_queue :
                  row.proposed_rule = new.proposed_rule
                      => row.status \notin {"approved", "rejected"}]_vars

C22_BatchSkipped ==
    LET n == Len(llm.messages)
        size == llm.batch_size
        chunk(k) == SubSeq(llm.messages, (k - 1) * size + 1, IF k * size < n THEN k * size ELSE n)
        sent == Len(llm.calls)
        good == {<<k, i>> \in (1..sent) \X (1..size) :
                    /\ ~llm.calls[k].raised
                    /\ i <= Len(llm.calls[k].response)
                    /\ llm.calls[k].response[i].json
                    /\ llm.calls[k].response[i].type # "none"
                    /\ llm.calls[k].response[i].preference # None}
        rank(p) == Cardinality({q \in good : q[1] < p[1] \/ (q[1] = p[1] /\ q[2] <= p[2])})
    IN  /\ \A k \in 1..sent : llm.calls[k].batch = chunk(k)
        /\ \A j \in 1..Len(llm.batches) : llm.batches[j] = chunk(sent + j)
        /\ (sent + Len(llm.batches) - 1) * size < n
        /\ (sent + Len(llm.batches)) * size >= n
        /\ Len(llm.results) = Cardinality(good)
        /\ \A p \in good :
              /\ llm.results[rank(p)].message_id = llm.calls[p[1]].batch[p[2]][1]
              /\ llm.results[rank(p)].preference_text = llm.calls[p[1]].response[p[2]].preference

\* three batches were sent: the first answered, the second failed, the third answered, and
\* the preferences of the first and the third are returned
C22_Witness ==
    /\ llm.batches = <<>>
    /\ Len(llm.calls) = 3
    /\ ~llm.calls[1].raised
    /\ llm.calls[2].raised
    /\ ~llm.calls[3].raised
    /\ Len(llm.results) = 2
    /\ llm.results[1].message_id = "m1"
    /\ llm.results[2].message_id = "m3"

\* C23: every review-queue item saved from a preference extracted by the language model
\* has a confidence of at most 0.65, the cap of a single observation.
C23_LlmCapped ==
    \A row \in review_queue : row.confidence <= 65

\* C30: when the user has checked exactly one box of a rule section of a note written by
\* generate_review_item_markdown, parse_review_file returns exactly one decision for that
\* section, of the checked kind, with the proposed rule of the item.
C30_ReviewRoundTrip ==
    (note.parsed /\ note.checked # 0) =>
        \E d \in 1..Len(note.decisions) :
            /\ note.decisions[d].rule_index = note.checked
            /\ note.decisions[d].decision = note.box
            /\ note.decisions[d].proposed_rule = note.items[note.checked].proposed_rule
            /\ \A e \in 1..Len(note.decisions) :
                  note.decisions[e].rule_index = note.checked => e = d

====
